---- MODULE Spec2Model ----
(***************************************************************************)
(* A model of the SKU mapper (csv_mapper.py) and of the helper scripts of  *)
(* the repository.  Text is modelled as a sequence of characters, each     *)
(* character a one-element string; the en-dash and the three characters    *)
(* the debug script carries in its character class are named "ndash",      *)
(* "acirc", "euro" and "ldquo".  A Python dict is modelled as the sequence *)
(* of its [key, val] entries in insertion order.                           *)
(***************************************************************************)
EXTENDS Naturals, Sequences, FiniteSets, TLC

VARIABLES
    pc,                 \* position of the run
    text,               \* normalizer: the input string
    norm1, norm2,       \* csv_mapper.normalize_string applied once, twice
    dnorm1, dnorm2,     \* debug_mapper.normalize_string applied once, twice
    master,             \* the rows of the master catalog (Sheet1), in file order
    sheet1_data,        \* load_sheet1: exact-name table
    sheet1_normalized,  \* load_sheet1: normalized-name table
    sheet1_full_data,   \* load_sheet1: the complete row stored under each name
    duplicate_skus,     \* load_sheet1: duplicate list
    sheet2_in,          \* the storefront rows (Sheet2) as read
    sheet2_data,        \* the storefront rows as the run holds them
    row,                \* the storefront row handed to find_match / build_option_suffix
    suffix,             \* the result of build_option_suffix
    match,              \* the result of find_match, with the lookups it made
    files,              \* the input files that exist
    attribute_export,   \* the rows of odoo_attribute_export.csv
    variant_export,     \* the rows of odoo_variant_export.csv
    attribute_name_to_id,       \* load_odoo_attribute_mappings: attribute ids
    attribute_value_name_to_id, \* load_odoo_attribute_mappings: value ids
    odoo_variant_lookup,        \* load_odoo_variant_export: variant ids
    next_row,           \* the matching loop: position of the row it handles next
    matches_found,      \* the matching loop: number of matches
    matched_sheet2_rows,    \* the matching loop: the matched rows
    matched_sheet1_names,   \* the matching loop: the master names matched
    written,            \* the report files written so far, in order
    message,            \* what __main__ prints when the run raises
    first_file,         \* a reconciliation tool: the rows of its first input
    second_file,        \* a reconciliation tool: the rows of its second input
    reports,            \* a reconciliation tool: the reports it wrote, in order
    label,              \* attribute names: the label given
    canonical,          \* normalize_attribute_name(label)
    canonical_again,    \* normalize_attribute_name(canonical)
    resolved,           \* per-row resolution in any order: the rows resolved
    matched_lookup,     \* the Odoo files: the matched rows by composite key
    unmapped_sheet1_rows, \* the unmapped report: the master names written
    shopify_update,     \* the Shopify update export: the rows written
    coverage            \* a reconciliation tool: the figures it printed

vars == <<pc, text, norm1, norm2, dnorm1, dnorm2, master, sheet1_data,
          sheet1_normalized, sheet1_full_data, duplicate_skus, sheet2_in, sheet2_data, row,
          suffix, match, files, attribute_export, variant_export,
          attribute_name_to_id, attribute_value_name_to_id, odoo_variant_lookup,
          next_row, matches_found, matched_sheet2_rows, matched_sheet1_names,
          written, message, first_file, second_file, reports, label,
          canonical, canonical_again, resolved, matched_lookup,
          unmapped_sheet1_rows, shopify_update, coverage>>

-----------------------------------------------------------------------------
(* Characters and the string primitives of Python that the code uses.      *)

Upper == <<"A","B","C","D","E","F","G","H","I","J","K","L","M",
           "N","O","P","Q","R","S","T","U","V","W","X","Y","Z">>

LowerCase == <<"a","b","c","d","e","f","g","h","i","j","k","l","m",
               "n","o","p","q","r","s","t","u","v","w","x","y","z">>

Digits == {"0","1","2","3","4","5","6","7","8","9"}

Letters == {Upper[i] : i \in 1..26} \cup {LowerCase[i] : i \in 1..26}

Whitespace == {" ", "\t"}

\* str.lower() on one character
LowerChar(c) ==
    IF \E i \in 1..26 : Upper[i] = c
    THEN LowerCase[CHOOSE i \in 1..26 : Upper[i] = c]
    ELSE c

\* str.lower()
Lower(s) == [i \in 1..Len(s) |-> LowerChar(s[i])]

\* s[i:] of Python with i counted from 1; empty when i is past the end
Drop(s, i) == IF i > Len(s) THEN <<>> ELSE SubSeq(s, i, Len(s))

\* s.startswith(pat, i-1): pat occurs in s at position i
MatchAt(s, i, pat) ==
    /\ i + Len(pat) - 1 <= Len(s)
    /\ \A j \in 1..Len(pat) : s[i + j - 1] = pat[j]

\* pat in s
Contains(s, pat) == \E i \in 1..(Len(s) + 1) : MatchAt(s, i, pat)

\* str.strip()
RECURSIVE LStrip(_)
LStrip(s) ==
    IF s # <<>> /\ s[1] \in Whitespace THEN LStrip(Tail(s)) ELSE s

RECURSIVE RStrip(_)
RStrip(s) ==
    IF s # <<>> /\ s[Len(s)] \in Whitespace
    THEN RStrip(SubSeq(s, 1, Len(s) - 1))
    ELSE s

Strip(s) == RStrip(LStrip(s))

\* str.replace(pat, rep) for a non-empty pat: leftmost, non-overlapping
RECURSIVE Replace(_, _, _)
Replace(s, pat, rep) ==
    IF s = <<>> THEN <<>>
    ELSE IF MatchAt(s, 1, pat)
         THEN rep \o Replace(Drop(s, Len(pat) + 1), pat, rep)
         ELSE <<s[1]>> \o Replace(Tail(s), pat, rep)

\* the number of leading characters of s that are in the set cls
RECURSIVE RunLen(_, _)
RunLen(s, cls) ==
    IF s # <<>> /\ s[1] \in cls THEN 1 + RunLen(Tail(s), cls) ELSE 0

-----------------------------------------------------------------------------
(* csv_mapper.normalize_string                                             *)

\* the character class of the first re.sub: [\s\-(en-dash),\.\"\(\)!&:+]
StripClass ==
    Whitespace \cup {"-", "ndash", ",", ".", "\"", "(", ")", "!", "&", ":", "+"}

\* faulty variant: the digits before "puff" are removed with it
RECURSIVE SubPuffsAndCount(_)
SubPuffsAndCount(s) ==
    IF s = <<>> THEN <<>>
    ELSE IF s[1] \in Digits
         THEN LET n == RunLen(s, Digits)
                  rest == Drop(s, n + 1)
              IN  IF MatchAt(rest, 1, <<"p","u","f","f">>)
                  THEN LET after == Drop(rest, 5)
                       IN  SubPuffsAndCount(IF after # <<>> /\ after[1] = "s"
                                            THEN Tail(after) ELSE after)
                  ELSE SubSeq(s, 1, n) \o SubPuffsAndCount(rest)
         ELSE <<s[1]>> \o SubPuffsAndCount(Tail(s))

\* re.sub(r'(\d+)puffs?', r'\1', s): a run of digits followed by "puff" and
\* an optional "s" keeps the digits; the scan goes on after the match
RECURSIVE SubPuffs(_)
SubPuffs(s) ==
    IF s = <<>> THEN <<>>
    ELSE IF s[1] \in Digits
         THEN LET n == RunLen(s, Digits)
                  rest == Drop(s, n + 1)
              IN  IF MatchAt(rest, 1, <<"p","u","f","f">>)
                  THEN LET after == Drop(rest, 5)
                       IN  SubSeq(s, 1, n) \o
                           SubPuffs(IF after # <<>> /\ after[1] = "s"
                                    THEN Tail(after) ELSE after)
                  ELSE SubSeq(s, 1, n) \o SubPuffs(rest)
         ELSE <<s[1]>> \o SubPuffs(Tail(s))

normalize_string(s) ==
    IF s = <<>> THEN <<>>
    ELSE SubPuffs(SelectSeq(Lower(s), LAMBDA c : c \notin StripClass))

-----------------------------------------------------------------------------
(* debug_mapper.normalize_string                                           *)

\* the character class of the debug script's first re.sub; the file holds the
\* three characters "acirc", "euro", "ldquo" where csv_mapper holds the
\* en-dash, and it has no "+"
DebugStripClass ==
    Whitespace \cup {"-", "acirc", "euro", "ldquo", ",", ".", "\"", "(", ")",
                     "!", "&", ":"}

\* the start of the last occurrence of pat in s, 0 when there is none
LastIndexOf(s, pat) ==
    LET hits == {i \in 1..Len(s) : MatchAt(s, i, pat)}
    IN  IF hits = {} THEN 0 ELSE CHOOSE i \in hits : \A j \in hits : j <= i

\* the length of the match of poweredby[a-zA-Z]*vape[a-zA-Z]*co\.? at the
\* head of s, 0 when it does not match there: both stars are greedy, so the
\* match ends with the last "co" of the run of letters that has a "vape"
\* before it
PoweredMatchLen(s) ==
    LET head == <<"p","o","w","e","r","e","d","b","y">>
    IN  IF ~MatchAt(s, 1, head) THEN 0
        ELSE LET rest == Drop(s, Len(head) + 1)
                 run == SubSeq(rest, 1, RunLen(rest, Letters))
                 c == LastIndexOf(run, <<"c","o">>)
                 dot == IF c > 0 /\ c + 2 <= Len(rest) /\ rest[c + 2] = "."
                        THEN 1 ELSE 0
             IN  IF c > 0 /\ \E v \in 1..Len(run) :
                               MatchAt(run, v, <<"v","a","p","e">>) /\ v + 4 <= c
                 THEN Len(head) + c + 1 + dot
                 ELSE 0

\* re.sub(r'poweredby[a-zA-Z]*vape[a-zA-Z]*co\.?', '', s)
RECURSIVE SubPowered(_)
SubPowered(s) ==
    IF s = <<>> THEN <<>>
    ELSE LET n == PoweredMatchLen(s)
         IN  IF n > 0 THEN SubPowered(Drop(s, n + 1))
             ELSE <<s[1]>> \o SubPowered(Tail(s))

\* re.sub(r'\d+pack', '', s)
RECURSIVE SubPack(_)
SubPack(s) ==
    IF s = <<>> THEN <<>>
    ELSE IF s[1] \in Digits
         THEN LET n == RunLen(s, Digits)
                  rest == Drop(s, n + 1)
              IN  IF MatchAt(rest, 1, <<"p","a","c","k">>)
                  THEN SubPack(Drop(rest, 5))
                  ELSE SubSeq(s, 1, n) \o SubPack(rest)
         ELSE <<s[1]>> \o SubPack(Tail(s))

\* re.sub(r'kit|pod', '', s)
RECURSIVE SubKitPod(_)
SubKitPod(s) ==
    IF s = <<>> THEN <<>>
    ELSE IF MatchAt(s, 1, <<"k","i","t">>) \/ MatchAt(s, 1, <<"p","o","d">>)
         THEN SubKitPod(Drop(s, 4))
         ELSE <<s[1]>> \o SubKitPod(Tail(s))

debug_normalize_string(s) ==
    IF s = <<>> THEN <<>>
    ELSE LET a == SelectSeq(Lower(s), LAMBDA c : c \notin DebugStripClass)
             b == SubPowered(a)
             c == Replace(b, <<"d","i","s","p","o","s","a","b","l","e",
                               "d","e","v","i","c","e">>,
                             <<"d","i","s","p","o","s","a","b","l","e">>)
             d == Replace(c, <<"e","c","i","g","d","e","v","i","c","e">>,
                             <<"e","c","i","g">>)
             e == SubPuffs(d)
             f == SubPack(e)
         IN  SubKitPod(f)

-----------------------------------------------------------------------------
(* Python dicts: the entries in insertion order.  Assigning to a key that  *)
(* is present replaces its value and keeps its place.                      *)

DictHas(d, k) == \E i \in 1..Len(d) : d[i].key = k

DictGet(d, k) == d[CHOOSE i \in 1..Len(d) : d[i].key = k].val

\* faulty variant: an assignment that keeps the value of a key that is present
DictSetKeepFirst(d, k, v) ==
    IF DictHas(d, k) THEN d ELSE Append(d, [key |-> k, val |-> v])

DictSet(d, k, v) ==
    IF DictHas(d, k)
    THEN [i \in 1..Len(d) |-> IF d[i].key = k THEN [key |-> k, val |-> v] ELSE d[i]]
    ELSE Append(d, [key |-> k, val |-> v])

DictKeys(d) == {d[i].key : i \in 1..Len(d)}

\* row.get(key, default) on a csv.DictReader row
Get(r, key, default) == IF key \in DOMAIN r THEN r[key] ELSE default

\* what csv.DictReader stores under a column for which a short row has no
\* field (restval): None, which is no string and has no strip()
None == <<"None">>

-----------------------------------------------------------------------------
(* csv_mapper.load_sheet1                                                  *)

\* the state of the loop of load_sheet1 before its first row
LoadInit ==
    [sheet1_data |-> <<>>, sheet1_normalized |-> <<>>, sheet1_full_data |-> <<>>,
     sku_tracker |-> <<>>, duplicate_skus |-> <<>>]

\* faulty variant: only the current row is appended, not the first occurrence
DuplicatePairCurrentOnly(st, sku, name, row_num) ==
    <<[sku |-> sku, name |-> name, row |-> row_num,
       duplicate_of |-> DictGet(st.sku_tracker, sku).row]>>

\* the two entries appended for a row whose SKU the tracker already holds;
\* duplicate_of is 0 for 'First occurrence' and n for 'Duplicate of row n'
DuplicatePair(st, sku, name, row_num) ==
    LET first == DictGet(st.sku_tracker, sku)
    IN  <<[sku |-> sku, name |-> first.name, row |-> first.row, duplicate_of |-> 0],
          [sku |-> sku, name |-> name, row |-> row_num, duplicate_of |-> first.row]>>

\* faulty variant: the identifier read from the Barcode column
MasterRecordFromBarcode(r) ==
    [internal_reference |-> Strip(Get(r, "Barcode", <<>>)),
     barcode |-> Get(r, "Barcode", <<>>)]

\* the value stored under a name: {'internal_reference': sku, 'barcode': ...}
MasterRecord(r) ==
    [internal_reference |-> Strip(Get(r, "Internal Reference", <<>>)),
     barcode |-> Get(r, "Barcode", <<>>)]

\* one pass of the loop body of load_sheet1 over the row r at position row_num
LoadRow(st, r, row_num) ==
    LET name == Strip(Get(r, "Name", <<>>))
        sku == Strip(Get(r, "Internal Reference", <<>>))
        rec == MasterRecord(r)
    IN  IF name = <<>> THEN st
        ELSE [sheet1_data |-> DictSet(st.sheet1_data, name, rec),
              sheet1_normalized |->
                  DictSet(st.sheet1_normalized, normalize_string(name), rec),
              sheet1_full_data |-> DictSet(st.sheet1_full_data, name, r),
              sku_tracker |->
                  IF sku # <<>> /\ ~DictHas(st.sku_tracker, sku)
                  THEN DictSet(st.sku_tracker, sku, [name |-> name, row |-> row_num])
                  ELSE st.sku_tracker,
              duplicate_skus |->
                  IF sku # <<>> /\ DictHas(st.sku_tracker, sku)
                  THEN st.duplicate_skus \o DuplicatePair(st, sku, name, row_num)
                  ELSE st.duplicate_skus]

\* the loop of load_sheet1 over the first n rows; enumerate(reader, start=2)
\* gives the i-th data row the position i + 1
RECURSIVE LoadRows(_, _)
LoadRows(rows, n) ==
    IF n = 0 THEN LoadInit
    ELSE LoadRow(LoadRows(rows, n - 1), rows[n], n + 1)

load_sheet1(rows) == LoadRows(rows, Len(rows))

\* whether load_sheet1 raises AttributeError: row.get('Name', '').strip() and
\* row.get('Internal Reference', '').strip() are evaluated for every row
load_sheet1_raises(rows) ==
    \E i \in 1..Len(rows) :
        \/ Get(rows[i], "Name", <<>>) = None
        \/ Get(rows[i], "Internal Reference", <<>>) = None

-----------------------------------------------------------------------------
(* csv_mapper.build_option_suffix                                          *)

\* range(1, 4): the option slots Option1, Option2, Option3
NumOptions == 3

\* f'Option{i} Name' and f'Option{i} Value'
OptionNameKey(i) ==
    CASE i = 1 -> "Option1 Name" [] i = 2 -> "Option2 Name" [] OTHER -> "Option3 Name"

OptionValueKey(i) ==
    CASE i = 1 -> "Option1 Value" [] i = 2 -> "Option2 Value" [] OTHER -> "Option3 Value"

TitleStr == <<"T","i","t","l","e">>

DefaultTitleStr == <<"D","e","f","a","u","l","t"," ","T","i","t","l","e">>

\* sep.join(list)
RECURSIVE Join(_, _)
Join(sep, list) ==
    IF list = <<>> THEN <<>>
    ELSE IF Len(list) = 1 THEN list[1]
    ELSE list[1] \o sep \o Join(sep, Tail(list))

\* faulty variant: the value "Default Title" is skipped whatever the option name
OptionAppendedAnyName(r, i) ==
    /\ OptionValueKey(i) \in DOMAIN r
    /\ Strip(r[OptionValueKey(i)]) # <<>>
    /\ Strip(r[OptionValueKey(i)]) # DefaultTitleStr

\* whether the loop body appends the value of slot i to options
OptionAppended(r, i) ==
    /\ OptionValueKey(i) \in DOMAIN r
    /\ Strip(r[OptionValueKey(i)]) # <<>>
    /\ ~(/\ Strip(Get(r, OptionNameKey(i), <<>>)) = TitleStr
         /\ Strip(r[OptionValueKey(i)]) = DefaultTitleStr)

\* the list options after the loop has run over the slots i..NumOptions
RECURSIVE CollectOptions(_, _)
CollectOptions(r, i) ==
    IF i > NumOptions THEN <<>>
    ELSE (IF OptionAppended(r, i) THEN <<Strip(r[OptionValueKey(i)])>> ELSE <<>>)
         \o CollectOptions(r, i + 1)

build_option_suffix(r) ==
    LET options == CollectOptions(r, 1)
    IN  IF options # <<>> THEN <<"-">> \o Join(<<"-">>, options) ELSE <<>>

\* whether build_option_suffix raises AttributeError: row[option_value_key]
\* is stripped when the column is there, the option name when the value is
\* not blank
build_option_suffix_raises(r) ==
    \E i \in 1..NumOptions :
        /\ OptionValueKey(i) \in DOMAIN r
        /\ \/ r[OptionValueKey(i)] = None
           \/ /\ Strip(r[OptionValueKey(i)]) # <<>>
              /\ Get(r, OptionNameKey(i), <<>>) = None

-----------------------------------------------------------------------------
(* csv_mapper.fill_missing_titles                                          *)

\* row[key] = value
SetField(r, key, value) == (key :> value) @@ r

\* faulty variant: the first pass keeps the last title of a handle, not the first
RECURSIVE CollectTitlesLast(_, _)
CollectTitlesLast(rows, n) ==
    IF n = 0 THEN <<>>
    ELSE LET sofar == CollectTitlesLast(rows, n - 1)
             handle == Strip(Get(rows[n], "Handle", <<>>))
             title == Strip(Get(rows[n], "Title", <<>>))
         IN  IF handle # <<>> /\ title # <<>>
             THEN DictSet(sofar, handle, title)
             ELSE sofar

\* first pass: handle_titles after the first n rows
RECURSIVE CollectTitles(_, _)
CollectTitles(rows, n) ==
    IF n = 0 THEN <<>>
    ELSE LET sofar == CollectTitles(rows, n - 1)
             handle == Strip(Get(rows[n], "Handle", <<>>))
             title == Strip(Get(rows[n], "Title", <<>>))
         IN  IF handle # <<>> /\ title # <<>> /\ ~DictHas(sofar, handle)
             THEN DictSet(sofar, handle, title)
             ELSE sofar

\* second pass, on one row
FillRow(r, handle_titles) ==
    LET handle == Strip(Get(r, "Handle", <<>>))
    IN  IF /\ handle # <<>>
           /\ Strip(Get(r, "Title", <<>>)) = <<>>
           /\ DictHas(handle_titles, handle)
        THEN SetField(r, "Title", DictGet(handle_titles, handle))
        ELSE r

fill_missing_titles(rows) ==
    LET handle_titles == CollectTitles(rows, Len(rows))
    IN  [i \in 1..Len(rows) |-> FillRow(rows[i], handle_titles)]

\* whether fill_missing_titles raises AttributeError: the first pass strips
\* the handle and the title of every row
fill_missing_titles_raises(rows) ==
    \E i \in 1..Len(rows) :
        \/ Get(rows[i], "Handle", <<>>) = None
        \/ Get(rows[i], "Title", <<>>) = None

-----------------------------------------------------------------------------
(* csv_mapper.find_match                                                   *)
(* The result carries, beside what the code returns (the record and the    *)
(* name), the number of the candidate that hit and the list of the         *)
(* membership tests the call made, in the order it made them.              *)

PuffsStr == <<" ","P","u","f","f","s">>

\* option_suffix.replace('-', ' - ')
spaced_option_suffix(r) ==
    Replace(build_option_suffix(r), <<"-">>, <<" ","-"," ">>)

\* title.replace(" Puffs", "").replace(en-dash, "-")
title_without_puffs(title) ==
    Replace(Replace(title, PuffsStr, <<>>), <<"ndash">>, <<"-">>)

\* faulty variant: format 2 (" - ") is tested before format 1
title_candidates_spaced_first(r) ==
    LET title == Strip(Get(r, "Title", <<>>))
        option_suffix == build_option_suffix(r)
    IN  IF title = <<>> THEN <<>>
        ELSE (IF option_suffix # <<>>
              THEN <<[cand |-> 2, key |-> title \o spaced_option_suffix(r)]>>
              ELSE <<>>)
             \o <<[cand |-> 1, key |-> title \o option_suffix]>>
             \o (IF option_suffix # <<>> /\ Contains(title, PuffsStr)
                 THEN <<[cand |-> 3,
                         key |-> title_without_puffs(title) \o option_suffix],
                        [cand |-> 4,
                         key |-> title_without_puffs(title) \o spaced_option_suffix(r)]>>
                 ELSE <<>>)

\* the names strategy 1 tests against sheet1_data, in the order of the code:
\* format 1, format 2 (only with a suffix), then the two Puffs-aware forms
\* (only with a suffix and " Puffs" in the title)
title_candidates(r) ==
    LET title == Strip(Get(r, "Title", <<>>))
        option_suffix == build_option_suffix(r)
    IN  IF title = <<>> THEN <<>>
        ELSE <<[cand |-> 1, key |-> title \o option_suffix]>>
             \o (IF option_suffix # <<>>
                 THEN <<[cand |-> 2, key |-> title \o spaced_option_suffix(r)]>>
                 ELSE <<>>)
             \o (IF option_suffix # <<>> /\ Contains(title, PuffsStr)
                 THEN <<[cand |-> 3,
                         key |-> title_without_puffs(title) \o option_suffix],
                        [cand |-> 4,
                         key |-> title_without_puffs(title) \o spaced_option_suffix(r)]>>
                 ELSE <<>>)

\* normalize_string(handle.replace('-', ' ') + option_suffix)
normalized_handle_name(r) ==
    LET handle == Strip(Get(r, "Handle", <<>>))
    IN  normalize_string(Replace(handle, <<"-">>, <<" ">>) \o build_option_suffix(r))

\* the early returns of strategy 1: the index of the first of the tests that
\* hits, 0 when none does
FirstHit(cands, d) ==
    LET hits == {i \in 1..Len(cands) : DictHas(d, cands[i].key)}
    IN  IF hits = {} THEN 0 ELSE CHOOSE i \in hits : \A j \in hits : i <= j

\* faulty variant: the loop returns the last name of the dict without comparing
original_name_last(d, key) == IF d = <<>> THEN <<>> ELSE d[Len(d)].key

\* for original_name, data in sheet1_data.items(): the first name, in the
\* order of the dict, whose normalized form is the key; <<>> when the loop
\* ends without one
original_name(d, key) ==
    LET hits == {i \in 1..Len(d) : normalize_string(d[i].key) = key}
    IN  IF hits = {} THEN <<>>
        ELSE d[CHOOSE i \in hits : \A j \in hits : i <= j].key

NoMatch(lookups) ==
    [found |-> FALSE, data |-> <<>>, name |-> <<>>, cand |-> 0, lookups |-> lookups]

find_match(r, d, n) ==
    LET cands == title_candidates(r)
        k == FirstHit(cands, d)
        handle == Strip(Get(r, "Handle", <<>>))
        hkey == normalized_handle_name(r)
        tried == IF handle # <<>>
                 THEN cands \o <<[cand |-> 5, key |-> hkey]>>
                 ELSE cands
    IN  IF k > 0
        THEN [found |-> TRUE, data |-> DictGet(d, cands[k].key),
              name |-> cands[k].key, cand |-> cands[k].cand,
              lookups |-> SubSeq(cands, 1, k)]
        ELSE IF handle # <<>> /\ DictHas(n, hkey)
                          /\ \E i \in 1..Len(d) : normalize_string(d[i].key) = hkey
        THEN [found |-> TRUE, data |-> DictGet(n, hkey),
              name |-> original_name(d, hkey), cand |-> 5, lookups |-> tried]
        ELSE NoMatch(tried)

\* whether find_match raises AttributeError: the title is stripped first;
\* the suffix is built when there is a title; the handle is stripped, and
\* the suffix built when there is a handle, only when no title form hit
find_match_raises(r, d) ==
    LET title == Get(r, "Title", <<>>)
        handle == Get(r, "Handle", <<>>)
    IN  \/ title = None
        \/ Strip(title) # <<>> /\ build_option_suffix_raises(r)
        \/ /\ title # None
           /\ Strip(title) = <<>> \/ FirstHit(title_candidates(r), d) = 0
           /\ \/ handle = None
              \/ Strip(handle) # <<>> /\ build_option_suffix_raises(r)

-----------------------------------------------------------------------------
(* csv_mapper.load_odoo_attribute_mappings and load_odoo_variant_export    *)

\* one pass of the loop body of load_odoo_attribute_mappings; current is the
\* current attribute name, <<>> while it is None
AttributeRow(st, r) ==
    LET attr_id == Strip(Get(r, "id", <<>>))
        attr_name == Strip(Get(r, "name", <<>>))
        value_id == Strip(Get(r, "value_ids/id", <<>>))
        value_name == Strip(Get(r, "value_ids/name", <<>>))
        new == attr_id # <<>> /\ attr_name # <<>>
        current == IF new THEN attr_name ELSE st.current
    IN  [current |-> current,
         attribute_name_to_id |->
             IF new THEN DictSet(st.attribute_name_to_id, attr_name, attr_id)
             ELSE st.attribute_name_to_id,
         attribute_value_name_to_id |->
             IF value_id # <<>> /\ value_name # <<>> /\ current # <<>>
             THEN DictSet(st.attribute_value_name_to_id,
                          current \o <<":">> \o value_name, value_id)
             ELSE st.attribute_value_name_to_id]

RECURSIVE AttributeRows(_, _)
AttributeRows(rows, n) ==
    IF n = 0
    THEN [current |-> <<>>, attribute_name_to_id |-> <<>>,
          attribute_value_name_to_id |-> <<>>]
    ELSE AttributeRow(AttributeRows(rows, n - 1), rows[n])

\* the two mappings of a file that exists
load_odoo_attribute_mappings(rows) == AttributeRows(rows, Len(rows))

\* _save_variant_to_lookup(variant_data, variant_lookup)
save_variant_to_lookup(variant_data, variant_lookup) ==
    LET template_name == variant_data.template_name
        combined_variant_values == Join(<<","," ">>, variant_data.variant_values)
        lookup_key == IF combined_variant_values # <<>>
                      THEN template_name \o <<"|">> \o combined_variant_values
                      ELSE template_name
    IN  DictSet(variant_lookup, lookup_key,
                [id |-> variant_data.id, template_name |-> template_name,
                 variant_values |-> combined_variant_values])

\* one pass of the loop body of load_odoo_variant_export; current holds the
\* current variant, and is empty while it is None
VariantRow(st, r) ==
    LET variant_id == Strip(Get(r, "External ID", <<>>))
        template_name == Strip(Get(r, "Name", <<>>))
        variant_values == Strip(Get(r, "Variant Values", <<>>))
    IN  IF variant_id # <<>> /\ template_name # <<>>
        THEN [current |-> <<[id |-> variant_id, template_name |-> template_name,
                             variant_values |-> IF variant_values # <<>>
                                                THEN <<variant_values>> ELSE <<>>]>>,
              variant_lookup |->
                  IF st.current # <<>>
                  THEN save_variant_to_lookup(st.current[1], st.variant_lookup)
                  ELSE st.variant_lookup]
        ELSE IF variant_values # <<>> /\ st.current # <<>>
        THEN [st EXCEPT !.current[1].variant_values = Append(@, variant_values)]
        ELSE st

RECURSIVE VariantRows(_, _)
VariantRows(rows, n) ==
    IF n = 0 THEN [current |-> <<>>, variant_lookup |-> <<>>]
    ELSE VariantRow(VariantRows(rows, n - 1), rows[n])

\* the lookup of a file that exists: the last variant is saved after the loop
load_odoo_variant_export(rows) ==
    LET st == VariantRows(rows, Len(rows))
    IN  IF st.current # <<>>
        THEN save_variant_to_lookup(st.current[1], st.variant_lookup)
        ELSE st.variant_lookup

-----------------------------------------------------------------------------
(* csv_mapper.normalize_attribute_name                                     *)

\* the dict attribute_mapping, in the order of the source
attribute_mapping ==
    <<[key |-> <<"F","l","a","v","o","r">>,
       val |-> <<"F","l","a","v","o","r">>],
      [key |-> <<"F","l","a","v","o","r"," ","1">>,
       val |-> <<"F","l","a","v","o","r">>],
      [key |-> <<"F","l","a","v","o","r"," ","2">>,
       val |-> <<"F","l","a","v","o","r">>],
      [key |-> <<"F","l","a","v","o","r","s">>,
       val |-> <<"F","l","a","v","o","r">>],
      [key |-> <<"f","l","a","v","o","r">>,
       val |-> <<"F","l","a","v","o","r">>],
      [key |-> <<"C","o","i","l"," ","T","y","p","e">>,
       val |-> <<"C","o","i","l"," ","T","y","p","e">>],
      [key |-> <<"C","o","i","l","-","t","y","p","e">>,
       val |-> <<"C","o","i","l"," ","T","y","p","e">>],
      [key |-> <<"C","o","i","l"," ","T","y","p","e"," ","|"," ","C","o","l","o","r">>,
       val |-> <<"C","o","i","l"," ","T","y","p","e"," ","|"," ","C","o","l","o","r">>],
      [key |-> <<"C","o","l","o","r"," ","&"," ","C","o","i","l"," ","T","y","p","e">>,
       val |-> <<"C","o","i","l"," ","T","y","p","e"," ","|"," ","C","o","l","o","r">>],
      [key |-> <<"F","l","a","v","o","r"," ","|"," ","N","i","c","o","t","i","n","e"," ","L","e","v","e","l">>,
       val |-> <<"F","l","a","v","o","r"," ","|"," ","N","i","c","o","t","i","n","e"," ","L","e","v","e","l">>],
      [key |-> <<"F","l","a","v","o","r"," ","|"," ","N","i","c","o","t","i","n","e"," "," ","L","e","v","e","l">>,
       val |-> <<"F","l","a","v","o","r"," ","|"," ","N","i","c","o","t","i","n","e"," ","L","e","v","e","l">>],
      [key |-> <<"F","l","a","v","o","r"," ","|"," ","N","i","c","o","t","i","n","e"," ","l","e","v","e","l">>,
       val |-> <<"F","l","a","v","o","r"," ","|"," ","N","i","c","o","t","i","n","e"," ","L","e","v","e","l">>],
      [key |-> <<"F","l","a","v","o","r"," ","|"," ","S","t","r","e","n","g","t","h">>,
       val |-> <<"F","l","a","v","o","r"," ","|"," ","N","i","c","o","t","i","n","e"," ","L","e","v","e","l">>],
      [key |-> <<"N","i","c","o","t","i","n","e"," ","L","e","v","e","l">>,
       val |-> <<"N","i","c","o","t","i","n","e"," ","L","e","v","e","l">>],
      [key |-> <<"N","i","c","o","t","i","n","e"," ","S","t","r","e","n","g","t","h">>,
       val |-> <<"N","i","c","o","t","i","n","e"," ","L","e","v","e","l">>],
      [key |-> <<"S","t","r","e","n","g","t","h">>,
       val |-> <<"N","i","c","o","t","i","n","e"," ","L","e","v","e","l">>],
      [key |-> <<"T","y","p","e">>,
       val |-> <<"T","y","p","e">>],
      [key |-> <<"t","y","p","e">>,
       val |-> <<"T","y","p","e">>],
      [key |-> <<"A","d","d","o","n"," ","O","p","t","i","o","n","s">>,
       val |-> <<"A","d","d","o","n"," ","O","p","t","i","o","n","s">>],
      [key |-> <<"A","m","o","u","n","t">>,
       val |-> <<"A","m","o","u","n","t">>],
      [key |-> <<"C","o","l","o","r">>,
       val |-> <<"C","o","l","o","r">>],
      [key |-> <<"D","e","v","i","c","e"," ","O","p","t","i","o","n","s">>,
       val |-> <<"D","e","v","i","c","e"," ","O","p","t","i","o","n","s">>],
      [key |-> <<"E","d","i","t","i","o","n">>,
       val |-> <<"E","d","i","t","i","o","n">>],
      [key |-> <<"O","p","t","i","o","n">>,
       val |-> <<"O","p","t","i","o","n">>],
      [key |-> <<"Q","u","a","n","t","i","t","y">>,
       val |-> <<"Q","u","a","n","t","i","t","y">>],
      [key |-> <<"R","e","s","i","s","t","a","n","c","e">>,
       val |-> <<"R","e","s","i","s","t","a","n","c","e">>],
      [key |-> <<"S","i","z","e">>,
       val |-> <<"S","i","z","e">>],
      [key |-> <<"S","t","r","a","i","n">>,
       val |-> <<"S","t","r","a","i","n">>],
      [key |-> <<"T","e","x","t"," ","C","o","l","o","r">>,
       val |-> <<"T","e","x","t"," ","C","o","l","o","r">>]>>

\* faulty variant: a label that is not in the table gives the empty label
normalize_attribute_name_known_only(name) ==
    IF DictHas(attribute_mapping, name) THEN DictGet(attribute_mapping, name)
    ELSE <<>>

\* attribute_mapping.get(attr_name, attr_name)
normalize_attribute_name(name) ==
    IF DictHas(attribute_mapping, name) THEN DictGet(attribute_mapping, name)
    ELSE name

-----------------------------------------------------------------------------
(* The reconciliation tools: find_missing_skus, find_missing_odoo_variant_ *)
(* skus, find_missing_shopify_rows, analyze_shopify_extra_rows and         *)
(* compare_missing_sku_lists.  A report is the list of what its rows       *)
(* identify, in the order the rows are written.                            *)

\* ord(c) for the characters of the identifiers
CodePoint(c) ==
    CASE c = " " -> 32 [] c = "1" -> 49 [] c = "2" -> 50 [] c = "3" -> 51
      [] c = "4" -> 52 [] c = "k" -> 107 [] c = "|" -> 124

\* a < b on str
RECURSIVE LessText(_, _)
LessText(a, b) ==
    IF a = <<>> THEN b # <<>>
    ELSE IF b = <<>> THEN FALSE
    ELSE IF a[1] = b[1] THEN LessText(Tail(a), Tail(b))
    ELSE CodePoint(a[1]) < CodePoint(b[1])

\* the orders in which iterating a set of str can give its elements: the
\* order follows the hashes of the strings, which differ from run to run
RECURSIVE Orders(_)
Orders(S) ==
    IF S = {} THEN {<<>>}
    ELSE UNION {{<<x>> \o q : q \in Orders(S \ {x})} : x \in S}

RECURSIVE InsertText(_, _)
InsertText(q, x) ==
    IF q = <<>> THEN <<x>>
    ELSE IF LessText(x, q[1]) THEN <<x>> \o q
    ELSE <<q[1]>> \o InsertText(Tail(q), x)

\* sorted(skus), and list.sort(key=lambda x: x['sku']): a stable sort
RECURSIVE sorted(_)
sorted(q) ==
    IF q = <<>> THEN <<>>
    ELSE InsertText(sorted(SubSeq(q, 1, Len(q) - 1)), q[Len(q)])

RECURSIVE InsertRow(_, _)
InsertRow(q, x) ==
    IF q = <<>> THEN <<x>>
    ELSE IF x.row_number < q[1].row_number THEN <<x>> \o q
    ELSE <<q[1]>> \o InsertRow(Tail(q), x)

\* missing_details.sort(key=lambda x: x['row_number']): a stable sort
RECURSIVE sort_by_row_number(_)
sort_by_row_number(q) ==
    IF q = <<>> THEN <<>>
    ELSE InsertRow(sort_by_row_number(SubSeq(q, 1, Len(q) - 1)), q[Len(q)])

\* the keys of the stripped, non-empty values of a column
ColumnKeys(rows, column) ==
    {Strip(Get(rows[i], column, <<>>)) : i \in 1..Len(rows)} \ {<<>>}

\* compare_missing_sku_lists.load_missing_skus_from_csv
load_missing_skus_from_csv(rows) == ColumnKeys(rows, "SKU")

\* the keys of compare_missing_sku_lists.load_missing_skus_with_details
load_missing_skus_with_details(rows) == ColumnKeys(rows, "SKU")

\* the keys of find_missing_skus.load_sheet1_skus
load_sheet1_skus(rows) == ColumnKeys(rows, "Internal Reference")

\* find_missing_skus.load_product_variants_skus:
\* row.get('default_code', '').strip() or row.get('Variant SKU', '').strip()
load_product_variants_skus(rows) ==
    {IF Strip(Get(rows[i], "default_code", <<>>)) # <<>>
     THEN Strip(Get(rows[i], "default_code", <<>>))
     ELSE Strip(Get(rows[i], "Variant SKU", <<>>)) : i \in 1..Len(rows)} \ {<<>>}

\* key = f"{handle}|{option1}|{option2}|{option3}"
variant_key(r) ==
    Strip(Get(r, "Handle", <<>>)) \o <<"|">>
    \o Strip(Get(r, "Option1 Value", <<>>)) \o <<"|">>
    \o Strip(Get(r, "Option2 Value", <<>>)) \o <<"|">>
    \o Strip(Get(r, "Option3 Value", <<>>))

\* find_missing_shopify_rows.load_mapped_output_handles: the rows of the
\* first n lines by key, each with its row_number (i + 2 for the 0-based i)
RECURSIVE mapped_rows(_, _)
mapped_rows(rows, n) ==
    IF n = 0 THEN <<>>
    ELSE DictSet(mapped_rows(rows, n - 1), variant_key(rows[n]), n + 1)

load_mapped_output_handles(rows) == mapped_rows(rows, Len(rows))

\* find_missing_shopify_rows.load_shopify_update_handles, and
\* analyze_shopify_extra_rows.load_mapped_output_handles: the set of keys
load_shopify_update_handles(rows) == {variant_key(rows[i]) : i \in 1..Len(rows)}

\* analyze_shopify_extra_rows.load_shopify_update_details: by key, the
\* row numbers of the rows with the key, in file order
RECURSIVE shopify_rows(_, _)
shopify_rows(rows, n) ==
    IF n = 0 THEN <<>>
    ELSE LET d == shopify_rows(rows, n - 1)
             key == variant_key(rows[n])
             seen == IF DictHas(d, key) THEN DictGet(d, key) ELSE <<>>
         IN  DictSet(d, key, Append(seen, n + 1))

load_shopify_update_details(rows) == shopify_rows(rows, Len(rows))

MissingSkusFile == "missing_skus.csv"

MissingVariantSkusFile == "missing_shopify_update_skus.csv"

MissingRowsFile == "missing_shopify_rows.csv"

ExtraRowsFile == "shopify_extra_rows.csv"

DuplicateRowsFile == "shopify_duplicate_rows.csv"

OnlyFirstFile == "skus_only_missing_from_product_variants.csv"

OnlySecondFile == "skus_only_missing_from_shopify_update.csv"

BothFile == "skus_missing_from_both.csv"

ToolReport(file, rows) == [file |-> file, rows |-> rows]

\* a report is written only when it has rows to list
ReportIf(keys, file, rows) ==
    IF keys = {} THEN <<>> ELSE <<ToolReport(file, rows)>>

\* ZeroDivisionError in the "Coverage:" line, printed by __main__
ZeroDivisionMessage == [error |-> "division by zero", file |-> ""]

\* print("Error: Could not load one or both files")
CouldNotLoadMessage == [error |-> "Could not load one or both files", file |-> ""]

-----------------------------------------------------------------------------
(* csv_mapper.process_csv_mapping and __main__: the files, the formats of  *)
(* the reports and what is printed when the run raises.                    *)

Sheet1File == "sheet1.csv"
Sheet2File == "sheet2.csv"
AttributeFile == "odoo_attribute_export.csv"
VariantFile == "odoo_variant_export.csv"

\* except FileNotFoundError as e: print(f"Error: Could not find file - {e}");
\* the text of e names the file that open() did not find
FileNotFoundMessage(f) == [error |-> "Could not find file", file |-> f]

\* except Exception as e: print(f"Error: {e}") for None.strip()
AttributeErrorMessage ==
    [error |-> "'NoneType' object has no attribute 'strip'", file |-> ""]

NoMessage == [error |-> "", file |-> ""]

\* faulty variant: the templates are written with ids whatever the mappings hold
TemplatesFormatAlwaysIds(name_to_id, value_name_to_id) == "external_id"

\* the columns of the product templates file
TemplatesFormat(name_to_id, value_name_to_id) ==
    IF name_to_id # <<>> /\ value_name_to_id # <<>> THEN "external_id" ELSE "name"

\* the columns of the product variants file: variant ids, then attribute
\* value ids, then names
VariantsFormat(variant_lookup, name_to_id, value_name_to_id) ==
    IF variant_lookup # <<>> THEN "variant_id"
    ELSE IF name_to_id # <<>> /\ value_name_to_id # <<>> THEN "external_id"
    ELSE "name"

Report(file, format) == [file |-> file, format |-> format]

\* f"{odoo_base_name}_2_product_templates.csv" and
\* f"{odoo_base_name}_3_product_variants.csv" for output_file mapped_output.csv
TemplatesFile == "mapped_output_odoo_2_product_templates.csv"

VariantsFile == "mapped_output_odoo_3_product_variants.csv"

\* the three Odoo files, written in their import sequence
OdooReports(variant_lookup, name_to_id, value_name_to_id) ==
    <<Report("mapped_output_odoo_1_attributes_values.csv", "name"),
      Report(TemplatesFile,
             TemplatesFormat(name_to_id, value_name_to_id)),
      Report(VariantsFile,
             VariantsFormat(variant_lookup, name_to_id, value_name_to_id))>>

\* the files written under "if sheet1_full_data:"; the duplicates report
\* only when there are duplicates
Sheet1Reports(full_data, duplicates) ==
    IF full_data = <<>> THEN <<>>
    ELSE <<Report("mapped_output_unmapped_sheet1.csv", "sheet1"),
           Report("mapped_output_shopify_update.csv", "shopify")>>
         \o (IF duplicates # <<>>
             THEN <<Report("mapped_output_duplicate_skus.csv", "duplicates")>>
             ELSE <<>>)
         \o <<Report("mapped_output_odoo_categories.csv", "categories")>>

\* "for sheet1_name, sheet1_row in sheet1_full_data.items(): if
\* sheet1_row.get('Internal Reference', '').strip() == variant_sku: ...
\* break" under "if variant_sku:": the first master row, in the order of the
\* dict, that carries the identifier, as a sequence of at most one row
first_row_with_sku(full_data, variant_sku) ==
    LET hits == {i \in 1..Len(full_data) :
                    Strip(Get(full_data[i].val, "Internal Reference", <<>>))
                        = variant_sku}
    IN  IF variant_sku = <<>> \/ hits = {} THEN <<>>
        ELSE <<full_data[CHOOSE i \in hits : \A j \in hits : i <= j].val>>

\* enhanced_row of the Odoo files: the copy of the row, and under
\* 'Sheet1_Data' the master row found for its 'Variant SKU' (none: no key)
enhanced_row(r, full_data) ==
    [row |-> r,
     Sheet1_Data |->
         first_row_with_sku(full_data, Strip(Get(r, "Variant SKU", <<>>)))]

\* enhanced_row of the Shopify update: the copy of the row, and under
\* 'Sheet1_Cost' the 'Cost' of the master row found for its 'Variant SKU'
enhanced_row_with_cost(r, full_data) ==
    LET found == first_row_with_sku(full_data,
                                    Strip(Get(r, "Variant SKU", <<>>)))
    IN  [row |-> r,
         Sheet1_Cost |-> IF found = <<>> THEN <<>>
                         ELSE <<Get(found[1], "Cost", <<>>)>>]

\* "matched_lookup[key] = enhanced_row" for the first n entries: a later
\* row with the same key takes the place of an earlier one
RECURSIVE lookup_by_key(_, _)
lookup_by_key(entries, n) ==
    IF n = 0 THEN <<>>
    ELSE DictSet(lookup_by_key(entries, n - 1), entries[n].key, entries[n].val)

\* matched_lookup of the Odoo files
build_matched_lookup(rows, full_data) ==
    lookup_by_key([i \in 1..Len(rows) |->
                      [key |-> variant_key(rows[i]),
                       val |-> enhanced_row(rows[i], full_data)]], Len(rows))

\* matched_lookup of the Shopify update
build_shopify_lookup(rows, full_data) ==
    lookup_by_key([i \in 1..Len(rows) |->
                      [key |-> variant_key(rows[i]),
                       val |-> enhanced_row_with_cost(rows[i], full_data)]],
                  Len(rows))

\* matched_lookup[key].get('Sheet1_Cost', '')
get_sheet1_cost(entry) ==
    IF entry.Sheet1_Cost = <<>> THEN <<>> ELSE entry.Sheet1_Cost[1]

shopify_fieldnames ==
    {"Handle", "Title", "Option1 Name", "Option1 Value", "Option2 Name",
     "Option2 Value", "Option3 Name", "Option3 Value", "Variant SKU",
     "Variant Barcode", "Variant Cost"}

\* shopify_row for one row of sheet2_data: the identifier, barcode and cost
\* of the entry that matched_lookup holds under the row's key
shopify_row(r, lookup) ==
    LET key == variant_key(r)
    IN  [field \in shopify_fieldnames |->
            CASE field = "Variant SKU" ->
                     IF DictHas(lookup, key)
                     THEN Get(DictGet(lookup, key).row, field, <<>>)
                     ELSE <<>>
              [] field = "Variant Barcode" ->
                     IF DictHas(lookup, key)
                     THEN Get(DictGet(lookup, key).row, field, <<>>)
                     ELSE Get(r, field, <<>>)
              [] field = "Variant Cost" ->
                     IF DictHas(lookup, key)
                     THEN get_sheet1_cost(DictGet(lookup, key))
                     ELSE Get(r, "Variant Cost", <<>>)
              [] OTHER -> Get(r, field, <<>>)]

\* "for row in sheet2_data: ... shopify_rows.append(shopify_row)"
shopify_update_rows(rows, matched_rows, full_data) ==
    [i \in 1..Len(rows) |->
        shopify_row(rows[i], build_shopify_lookup(matched_rows, full_data))]

\* "for product_name, row_data in sheet1_full_data.items(): if product_name
\* not in matched_sheet1_names"
unmapped_rows(full_data, matched_names) ==
    SelectSeq(full_data, LAMBDA e : e.key \notin matched_names)

-----------------------------------------------------------------------------
(* Bounds and the sets the inputs are drawn from.                          *)

MaxPieces == 3      \* a normalizer input is made of at most this many pieces
MaxMaster == 3      \* rows of a master catalog handed to load_sheet1 alone
MaxCatalog == 2     \* rows of a master catalog handed to the matcher
MaxRows == 3        \* rows of a storefront export
MaxRunRows == 2     \* rows of the storefront export of a whole run
MaxToolRows == 2    \* rows of an input of a reconciliation tool

\* all sequences over S of length at most n
RECURSIVE SeqsUpTo(_, _)
SeqsUpTo(S, n) ==
    IF n = 0 THEN {<<>>}
    ELSE LET shorter == SeqsUpTo(S, n - 1)
         IN  shorter \cup {Append(q, x) : q \in shorter, x \in S}

RECURSIVE Concat(_)
Concat(list) == IF list = <<>> THEN <<>> ELSE list[1] \o Concat(Tail(list))

\* pieces of product names: a puff count, "puff", a plural "s", a blank, an
\* upper-case letter, the halves of "kit", "kit" itself, a plus and an en-dash
NormPieces ==
    {<<"5">>, <<"p","u","f","f">>, <<"s">>, <<" ">>, <<"K">>, <<"k","i","t">>,
     <<"i","t">>, <<"+">>, <<"ndash">>}

Texts == {Concat(q) : q \in SeqsUpTo(NormPieces, MaxPieces)}

\* a master row
MasterRow(name, sku, barcode) ==
    ("Name" :> name) @@ ("Internal Reference" :> sku) @@ ("Barcode" :> barcode)

\* a storefront row; names and values hold the three option slots
StoreRow(handle, title, names, values) ==
    ("Handle" :> handle) @@ ("Title" :> title)
    @@ ("Option1 Name" :> names[1]) @@ ("Option1 Value" :> values[1])
    @@ ("Option2 Name" :> names[2]) @@ ("Option2 Value" :> values[2])
    @@ ("Option3 Name" :> names[3]) @@ ("Option3 Value" :> values[3])

ColorStr == <<"C","o","l","o","r">>

\* master catalogs for load_sheet1: names that are empty, padded, equal, or
\* different with the same normalized form; SKUs that are empty or repeat
LoadNames == {<<>>, <<"A","-","r">>, <<"A"," ","r">>, <<" ","B">>}

\* the identifier and barcode of a master row: no identifier, an identifier
\* seen with two barcodes, and another identifier
LoadIds == {<<<<>>, <<"7">>>>, <<<<"S","1">>, <<"7">>>>, <<<<"S","1">>, <<"8">>>>,
            <<<<"S","2">>, <<"7">>>>}

LoadCatalogs ==
    SeqsUpTo({MasterRow(n, k[1], k[2]) : n \in LoadNames, k \in LoadIds}, MaxMaster)

\* storefront rows for build_option_suffix
SuffixNames == {TitleStr, ColorStr}

SuffixValues == {<<>>, DefaultTitleStr, <<"r">>, <<" ","b"," ">>}

SuffixRows ==
    {StoreRow(<<"h">>, <<"T">>, <<n1, n2, n3>>, <<v1, v2, v3>>) :
        n1 \in SuffixNames, n2 \in SuffixNames, n3 \in SuffixNames,
        v1 \in SuffixValues, v2 \in SuffixValues, v3 \in SuffixValues}

\* storefront exports for fill_missing_titles: handles that are empty or
\* shared, titles that are empty, blank or padded
FillHandles == {<<>>, <<"h">>, <<"g">>}

FillTitles == {<<>>, <<" ">>, <<"T">>, <<"U"," ">>}

FillRows == {("Handle" :> h) @@ ("Title" :> t) : h \in FillHandles, t \in FillTitles}

FillExports == SeqsUpTo(FillRows, MaxRows)

\* master catalogs and storefront rows for find_match: for the row titled
\* "A" or "A Puffs" with the option value "r" each of the five candidates
\* has a master name that it alone finds
MatchNames ==
    {<<"A","-","r">>, <<"A"," ","-"," ","r">>, <<"A"," ","P","u","f","f","s","-","r">>,
     <<"A"," ","r">>, <<"A">>}

MatchSkus == {<<"S","1">>, <<"S","2">>}

MatchCatalogs ==
    SeqsUpTo({MasterRow(n, k, <<"7">>) : n \in MatchNames, k \in MatchSkus}, MaxCatalog)

MatchTitles == {<<>>, <<"A">>, <<"A"," ","P","u","f","f","s">>}

MatchHandles == {<<>>, <<"a">>}

MatchOptions ==
    {<<TitleStr, DefaultTitleStr>>, <<ColorStr, <<"r">>>>, <<ColorStr, <<>>>>}

MatchRows ==
    {StoreRow(h, t, <<o[1], <<>>, <<>>>>, <<o[2], <<>>, <<>>>>) :
        h \in MatchHandles, t \in MatchTitles, o \in MatchOptions}

\* the records and rows of the scenarios A and B: the master record of
\* scenario A, the storefront handle of scenario A and the same handle with
\* the puff count in it; the row of scenario B and master names that its
\* candidates 1 and 2 find, that its handle finds with "kit" kept in the key
\* and that it would find with "kit" removed from the key

WildBerryName ==
    <<"W","i","l","d"," ","B","e","r","r","y"," ","I","c","e"," ","5","0","0",
      "0"," ","P","u","f","f","s"," ","D","i","s","p","o","s","a","b","l",
      "e">>

WildBerryHandle ==
    <<"w","i","l","d","-","b","e","r","r","y","-","i","c","e","-","d","i","s",
      "p","o","s","a","b","l","e">>

WildBerryCountHandle ==
    <<"w","i","l","d","-","b","e","r","r","y","-","i","c","e","-","5","0","0",
      "0","-","d","i","s","p","o","s","a","b","l","e">>

WildBerryKey ==
    <<"w","i","l","d","b","e","r","r","y","i","c","e","5","0","0","0","d","i",
      "s","p","o","s","a","b","l","e">>

MangoKitTitle == <<"M","a","n","g","o"," ","K","i","t">>

MangoKitHandle == <<"m","a","n","g","o","-","k","i","t">>

BlueStr == <<"B","l","u","e">>

KitStr == <<"k","i","t">>

\* each scenario record has its own identifier
ScenarioRecords ==
    {MasterRow(WildBerryName, <<"S","1">>, <<"7">>),
     MasterRow(MangoKitTitle \o <<"-">> \o BlueStr, <<"S","2">>, <<"7">>),
     MasterRow(MangoKitTitle \o <<" ","-"," ">> \o BlueStr, <<"S","3">>, <<"7">>),
     MasterRow(MangoKitTitle \o <<" ">> \o BlueStr, <<"S","4">>, <<"7">>),
     MasterRow(<<"M","a","n","g","o"," ">> \o BlueStr, <<"S","5">>, <<"7">>)}

ScenarioCatalogs == SeqsUpTo(ScenarioRecords, MaxCatalog)

ScenarioRows ==
    {StoreRow(h, <<>>, <<<<>>, <<>>, <<>>>>, <<<<>>, <<>>, <<>>>>) :
        h \in {WildBerryHandle, WildBerryCountHandle}}
    \cup {StoreRow(h, MangoKitTitle, <<ColorStr, <<>>, <<>>>>, <<BlueStr, <<>>, <<>>>>) :
              h \in {<<>>, MangoKitHandle}}

\* the inputs of a whole run.  A storefront export has the columns Handle,
\* Title, the option columns, Variant SKU and Variant Barcode, in this
\* order; a short row holds None from some column on
RunRow(handle, title, name, value) ==
    StoreRow(handle, title, <<name, <<>>, <<>>>>, <<value, <<>>, <<>>>>)
    @@ ("Variant SKU" :> <<>>) @@ ("Variant Barcode" :> <<"9">>)
    @@ ("Variant Cost" :> <<"5">>)

ShortRow(r, kept) == [k \in DOMAIN r |-> IF k \in kept THEN r[k] ELSE None]

\* rows with a title that candidate 1 finds, with another title under the
\* same handle and option value, with no title, with no handle and a title
\* that misses, with neither, and short rows that end after the title and
\* after the handle
RunRows ==
    {RunRow(<<"a">>, <<"A">>, ColorStr, <<"r">>),
     RunRow(<<"a">>, <<"B">>, ColorStr, <<"r">>),
     RunRow(<<"a">>, <<>>, ColorStr, <<"r">>),
     RunRow(<<>>, <<"Z">>, TitleStr, DefaultTitleStr),
     RunRow(<<>>, <<>>, <<>>, <<>>),
     ShortRow(RunRow(<<"a">>, <<>>, <<>>, <<>>), {"Handle", "Title"}),
     ShortRow(RunRow(<<"a">>, <<>>, <<>>, <<>>), {"Handle"})}

\* an export without the option columns
NarrowRow ==
    ("Handle" :> <<"a">>) @@ ("Title" :> <<"A">>)
    @@ ("Variant SKU" :> <<>>) @@ ("Variant Barcode" :> <<"9">>)

RunExports == SeqsUpTo(RunRows, MaxRunRows) \cup {<<NarrowRow>>}

\* a master row with its 'Cost' column
CostedRow(name, sku, barcode, cost) ==
    MasterRow(name, sku, barcode) @@ ("Cost" :> cost)

\* master catalogs of a run: empty, one record, a record for the other
\* title, two records with the same identifier, two records whose names have
\* the same normalized form, a short row, and a catalog without the
\* identifier column
RunCatalogs ==
    {<<>>,
     <<CostedRow(<<"A","-","r">>, <<"S","1">>, <<"7">>, <<"1">>)>>,
     <<CostedRow(<<"B","-","r">>, <<"S","2">>, <<"6">>, <<"3">>)>>,
     <<CostedRow(<<"A","-","r">>, <<"S","1">>, <<"7">>, <<"1">>),
       CostedRow(<<"A">>, <<"S","1">>, <<"8">>, <<"2">>)>>,
     <<CostedRow(<<"A","-","r">>, <<"S","1">>, <<"7">>, <<"1">>),
       CostedRow(<<"A"," ","r">>, <<"S","2">>, <<"8">>, <<"2">>)>>,
     <<CostedRow(<<"A","-","r">>, <<"S","1">>, <<"7">>, <<"1">>),
       CostedRow(<<"A">>, None, None, None)>>,
     <<("Name" :> <<"A">>) @@ ("Barcode" :> <<"7">>)>>}

AttributeExportRow(id, name, value_id, value_name) ==
    ("id" :> id) @@ ("name" :> name)
    @@ ("value_ids/id" :> value_id) @@ ("value_ids/name" :> value_name)

\* attribute exports: no rows, an attribute without values, an attribute
\* with a value on its row and another on the next row
AttributeExports ==
    {<<>>,
     <<AttributeExportRow(<<"a","1">>, ColorStr, <<>>, <<>>)>>,
     <<AttributeExportRow(<<"a","1">>, ColorStr, <<"v","1">>, <<"r">>),
       AttributeExportRow(<<>>, <<>>, <<"v","2">>, <<"b">>)>>}

VariantExportRow(id, name, values) ==
    ("External ID" :> id) @@ ("Name" :> name) @@ ("Variant Values" :> values)

\* variant exports: no rows, and a variant whose second attribute is on a
\* continuation row followed by a variant without values
VariantExports ==
    {<<>>,
     <<VariantExportRow(<<"x","1">>, <<"A">>, ColorStr \o <<":"," ","r">>),
       VariantExportRow(<<>>, <<>>, <<"S",":"," ","1">>),
       VariantExportRow(<<"x","2">>, <<"A">>, <<>>)>>}

AllFiles == {Sheet1File, Sheet2File, AttributeFile, VariantFile}

\* which files exist and what the side files hold; a file that does not
\* exist holds nothing, and the side files are varied when both required
\* files exist
FileCases ==
    {[files |-> F, attribute_export |-> a, variant_export |-> v] :
        F \in SUBSET AllFiles, a \in AttributeExports, v \in VariantExports}

RunFileCases ==
    {c \in FileCases :
        /\ AttributeFile \notin c.files => c.attribute_export = <<>>
        /\ VariantFile \notin c.files => c.variant_export = <<>>
        /\ ~({Sheet1File, Sheet2File} \subseteq c.files) =>
               /\ AttributeFile \in c.files <=> VariantFile \in c.files
               /\ AttributeFile \in c.files => c.attribute_export # <<>>
               /\ VariantFile \in c.files => c.variant_export # <<>>
               /\ \A i \in 1..Len(c.attribute_export) :
                      c.attribute_export[i]["value_ids/id"] # <<>>}

\* the inputs of the reconciliation tools.  A row holds its identifier in
\* the columns the tools read (SKU, Internal Reference, default_code,
\* Handle); the option columns are absent
ToolRow(t) ==
    ("SKU" :> t) @@ ("Internal Reference" :> t) @@ ("default_code" :> t)
    @@ ("Handle" :> t)

K1 == <<"k","1">>
K2 == <<"k","2">>
K3 == <<"k","3">>
K4 == <<"k","4">>

\* four identifiers, the empty identifier, and one that needs stripping
ToolTexts == {K1, K2, K3, K4, <<>>, <<" ","k","1">>}

\* Scenario E: A = {k1, k2, k3} and B = {k2, k3, k4}
ScenarioEFirst == <<ToolRow(K1), ToolRow(K2), ToolRow(K3)>>

ScenarioESecond == <<ToolRow(K2), ToolRow(K3), ToolRow(K4)>>

\* a row with a handle and a first option value
OptionRow(handle, option1) ==
    ToolRow(handle) @@ ("Option1 Value" :> option1)

\* two variants whose handle or option value holds the separator of the key
SeparatorRows ==
    <<OptionRow(K1 \o <<"|">> \o K2, K3), OptionRow(K1, K2 \o <<"|">> \o K3)>>

ToolFiles ==
    SeqsUpTo({ToolRow(t) : t \in ToolTexts}, MaxToolRows)
    \cup {ScenarioEFirst, ScenarioESecond, SeparatorRows}

\* labels that are not in the table of normalize_attribute_name
UnknownLabels ==
    {<<>>, <<"F","l","a","v","o","u","r">>, <<"F","L","A","V","O","R">>,
     <<"F","l","a","v","o","r"," ","3">>, <<"F","l","a","v","o","r"," ">>,
     <<" ","C","o","l","o","r">>, <<"c","o","l","o","r">>,
     <<"C","o","l","o","u","r">>, <<"S","i","z","e","s">>,
     <<"s","t","r","e","n","g","t","h">>, <<"P","u","f","f","s">>,
     <<"C","o","i","l"," ","t","y","p","e">>}

AttributeLabels == DictKeys(attribute_mapping) \cup UnknownLabels

-----------------------------------------------------------------------------
(* The state machine.                                                      *)

\* the parts of the state a specification does not use
NormIdle ==
    text = <<>> /\ norm1 = <<>> /\ norm2 = <<>> /\ dnorm1 = <<>> /\ dnorm2 = <<>>

LoadIdle ==
    /\ master = <<>> /\ sheet1_data = <<>> /\ sheet1_normalized = <<>>
    /\ sheet1_full_data = <<>> /\ duplicate_skus = <<>>

FillIdle == sheet2_in = <<>> /\ sheet2_data = <<>>

RowIdle == row = <<>> /\ suffix = <<>> /\ match = NoMatch(<<>>)

\* a run that has loaded no side file, matched no row and written nothing
RunStart ==
    /\ attribute_name_to_id = <<>> /\ attribute_value_name_to_id = <<>>
    /\ odoo_variant_lookup = <<>>
    /\ next_row = 1 /\ matches_found = 0
    /\ matched_sheet2_rows = <<>> /\ matched_sheet1_names = {}
    /\ written = <<>> /\ message = NoMessage

\* no "Coverage:" line has been printed
NoCoverage == [covered |-> 0, reference |-> 0, missing |-> 0]

ToolIdle ==
    /\ first_file = <<>> /\ second_file = <<>> /\ reports = <<>>
    /\ coverage = NoCoverage

\* nothing has been resolved out of order and no export has been built
ExportIdle ==
    /\ resolved = {} /\ matched_lookup = <<>>
    /\ unmapped_sheet1_rows = <<>> /\ shopify_update = <<>>

AttrIdle == label = <<>> /\ canonical = <<>> /\ canonical_again = <<>>

RunIdle ==
    /\ files = {Sheet1File, Sheet2File}
    /\ attribute_export = <<>> /\ variant_export = <<>>
    /\ RunStart

normVars == <<text, norm1, norm2, dnorm1, dnorm2>>

loadVars == <<master, sheet1_data, sheet1_normalized, sheet1_full_data, duplicate_skus>>

fillVars == <<sheet2_in, sheet2_data>>

fileVars == <<files, attribute_export, variant_export>>

odooVars == <<attribute_name_to_id, attribute_value_name_to_id, odoo_variant_lookup>>

loopVars == <<next_row, matches_found, matched_sheet2_rows, matched_sheet1_names>>

toolVars == <<first_file, second_file, reports>>

attrVars == <<label, canonical, canonical_again>>

exportVars == <<matched_lookup, unmapped_sheet1_rows, shopify_update>>

\* normalize_string(text), in csv_mapper and in debug_mapper
Normalize ==
    /\ pc = "text"
    /\ norm1' = normalize_string(text)
    /\ dnorm1' = debug_normalize_string(text)
    /\ pc' = "normalized"
    /\ UNCHANGED <<exportVars, resolved, coverage,
                   toolVars, attrVars, text, norm2, dnorm2, loadVars, fillVars, row, suffix, match,
                   fileVars, odooVars, loopVars, written, message>>

\* normalize_string applied to its own result
NormalizeAgain ==
    /\ pc = "normalized"
    /\ norm2' = normalize_string(norm1)
    /\ dnorm2' = debug_normalize_string(dnorm1)
    /\ pc' = "renormalized"
    /\ UNCHANGED <<exportVars, resolved, coverage,
                   toolVars, attrVars, text, norm1, dnorm1, loadVars, fillVars, row, suffix, match,
                   fileVars, odooVars, loopVars, written, message>>

\* the run is over with an exception: __main__ prints msg
Raise(msg) == pc' = "failed" /\ message' = msg

\* load_sheet1(sheet1_file): open() raises FileNotFoundError when the file
\* does not exist
LoadSheet1 ==
    /\ pc = "start"
    /\ IF Sheet1File \notin files \/ load_sheet1_raises(master)
       THEN /\ Raise(IF Sheet1File \notin files
                     THEN FileNotFoundMessage(Sheet1File)
                     ELSE AttributeErrorMessage)
            /\ UNCHANGED <<sheet1_data, sheet1_normalized, sheet1_full_data,
                           duplicate_skus>>
       ELSE LET st == load_sheet1(master)
            IN  /\ sheet1_data' = st.sheet1_data
                /\ sheet1_normalized' = st.sheet1_normalized
                /\ sheet1_full_data' = st.sheet1_full_data
                /\ duplicate_skus' = st.duplicate_skus
                /\ pc' = "loaded"
                /\ UNCHANGED message
    /\ UNCHANGED <<exportVars, resolved, coverage,
                   toolVars, attrVars, master, normVars, fillVars, row, suffix, match,
                   fileVars, odooVars, loopVars, written>>

\* build_option_suffix(row)
BuildOptionSuffix ==
    /\ pc = "row"
    /\ IF build_option_suffix_raises(row)
       THEN Raise(AttributeErrorMessage) /\ UNCHANGED suffix
       ELSE /\ suffix' = build_option_suffix(row)
            /\ pc' = "suffixed"
            /\ UNCHANGED message
    /\ UNCHANGED <<exportVars, resolved, coverage,
                   toolVars, attrVars, normVars, loadVars, fillVars, row, match,
                   fileVars, odooVars, loopVars, written>>

\* sheet2_data = fill_missing_titles(sheet2_data)
FillMissingTitles ==
    /\ pc = "read"
    /\ IF fill_missing_titles_raises(sheet2_data)
       THEN Raise(AttributeErrorMessage) /\ UNCHANGED sheet2_data
       ELSE /\ sheet2_data' = fill_missing_titles(sheet2_data)
            /\ pc' = "filled"
            /\ UNCHANGED message
    /\ UNCHANGED <<exportVars, resolved, coverage,
                   toolVars, attrVars, normVars, loadVars, sheet2_in, row, suffix, match,
                   fileVars, odooVars, loopVars, written>>

\* match_result = find_match(row, sheet1_data, sheet1_normalized)
FindMatch ==
    /\ pc = "loaded"
    /\ IF find_match_raises(row, sheet1_data)
       THEN Raise(AttributeErrorMessage) /\ UNCHANGED match
       ELSE /\ match' = find_match(row, sheet1_data, sheet1_normalized)
            /\ pc' = "matched"
            /\ UNCHANGED message
    /\ UNCHANGED <<exportVars, resolved, coverage,
                   toolVars, attrVars, normVars, loadVars, fillVars, row, suffix,
                   fileVars, odooVars, loopVars, written>>

\* attribute_name_to_id, attribute_value_name_to_id =
\*     load_odoo_attribute_mappings("odoo_attribute_export.csv"); the loader
\* catches FileNotFoundError and returns {}, {}
LoadOdooAttributeMappings ==
    /\ pc = "loaded"
    /\ LET st == IF AttributeFile \in files
                 THEN load_odoo_attribute_mappings(attribute_export)
                 ELSE load_odoo_attribute_mappings(<<>>)
       IN  /\ attribute_name_to_id' = st.attribute_name_to_id
           /\ attribute_value_name_to_id' = st.attribute_value_name_to_id
    /\ pc' = "attributes"
    /\ UNCHANGED <<exportVars, resolved, coverage,
                   toolVars, attrVars, normVars, loadVars, fillVars, row, suffix, match, fileVars,
                   odoo_variant_lookup, loopVars, written, message>>

\* odoo_variant_lookup = load_odoo_variant_export("odoo_variant_export.csv");
\* the loader catches FileNotFoundError and returns {}
LoadOdooVariantExport ==
    /\ pc = "attributes"
    /\ odoo_variant_lookup' = IF VariantFile \in files
                              THEN load_odoo_variant_export(variant_export)
                              ELSE <<>>
    /\ pc' = "variants"
    /\ UNCHANGED <<exportVars, resolved, coverage,
                   toolVars, attrVars, normVars, loadVars, fillVars, row, suffix, match, fileVars,
                   attribute_name_to_id, attribute_value_name_to_id, loopVars,
                   written, message>>

\* with open(sheet2_file, ...): the rows of the storefront export are read
ReadSheet2 ==
    /\ pc = "variants"
    /\ IF Sheet2File \notin files
       THEN Raise(FileNotFoundMessage(Sheet2File)) /\ UNCHANGED sheet2_data
       ELSE /\ sheet2_data' = sheet2_in
            /\ pc' = "read"
            /\ UNCHANGED message
    /\ UNCHANGED <<exportVars, resolved, coverage,
                   toolVars, attrVars, normVars, loadVars, sheet2_in, row, suffix, match,
                   fileVars, odooVars, loopVars, written>>

\* faulty variant: a match writes the identifier and leaves the barcode
MatchedRowSkuOnly(r, match_data) ==
    SetField(r, "Variant SKU", match_data.internal_reference)

\* the row as the body of the matching loop leaves it on a match
MatchedRow(r, match_data) ==
    SetField(SetField(r, "Variant SKU", match_data.internal_reference),
             "Variant Barcode", match_data.barcode)

\* faulty variant: a matched master record is taken out of the exact-name table
MatchRowConsumesRecord ==
    /\ pc = "filled"
    /\ next_row <= Len(sheet2_data)
    /\ ~find_match_raises(sheet2_data[next_row], sheet1_data)
    /\ LET match_result == find_match(sheet2_data[next_row], sheet1_data,
                                      sheet1_normalized)
       IN  /\ match_result.found
           /\ match' = match_result
           /\ sheet1_data' =
                  SelectSeq(sheet1_data, LAMBDA e : e.key # match_result.name)
    /\ row' = sheet2_data[next_row]
    /\ matches_found' = matches_found + 1
    /\ next_row' = next_row + 1
    /\ UNCHANGED <<pc, message, sheet2_data, matched_sheet2_rows,
                   matched_sheet1_names, sheet1_normalized, sheet1_full_data,
                   duplicate_skus, master, exportVars, resolved, coverage,
                   toolVars, attrVars, normVars, sheet2_in, suffix, fileVars,
                   odooVars, written>>

\* one pass of "for row in sheet2_data:"; row and match keep the row the
\* pass handled and what find_match returned for it
MatchRow ==
    /\ pc = "filled"
    /\ next_row <= Len(sheet2_data)
    /\ row' = sheet2_data[next_row]
    /\ IF find_match_raises(sheet2_data[next_row], sheet1_data)
       THEN /\ Raise(AttributeErrorMessage)
            /\ UNCHANGED <<match, sheet2_data, loopVars>>
       ELSE LET match_result == find_match(sheet2_data[next_row], sheet1_data,
                                           sheet1_normalized)
            IN  /\ match' = match_result
                /\ IF match_result.found
                   THEN LET updated == MatchedRow(sheet2_data[next_row],
                                                  match_result.data)
                        IN  /\ matches_found' = matches_found + 1
                            /\ sheet2_data' =
                                   [sheet2_data EXCEPT ![next_row] = updated]
                            /\ matched_sheet2_rows' =
                                   Append(matched_sheet2_rows, updated)
                            /\ matched_sheet1_names' =
                                   matched_sheet1_names \cup {match_result.name}
                   ELSE UNCHANGED <<matches_found, sheet2_data,
                                    matched_sheet2_rows, matched_sheet1_names>>
                /\ next_row' = next_row + 1
                /\ UNCHANGED <<pc, message>>
    /\ UNCHANGED <<exportVars, resolved, coverage,
                   toolVars, attrVars, normVars, loadVars, sheet2_in, suffix, fileVars, odooVars,
                   written>>

\* faulty variant: a master record is given to the first row that asks for it
ResolveRowOnce ==
    /\ pc = "filled"
    /\ \E i \in (1..Len(sheet2_data)) \ {e.index : e \in resolved} :
           /\ ~find_match_raises(sheet2_data[i], sheet1_data)
           /\ LET match_result == find_match(sheet2_data[i], sheet1_data,
                                             sheet1_normalized)
                  taken == match_result.name \in matched_sheet1_names
              IN  /\ row' = sheet2_data[i]
                  /\ match' = match_result
                  /\ IF match_result.found /\ ~taken
                     THEN /\ matches_found' = matches_found + 1
                          /\ sheet2_data' =
                                 [sheet2_data EXCEPT
                                     ![i] = MatchedRow(@, match_result.data)]
                          /\ matched_sheet2_rows' =
                                 Append(matched_sheet2_rows,
                                        MatchedRow(sheet2_data[i],
                                                   match_result.data))
                          /\ matched_sheet1_names' =
                                 matched_sheet1_names \cup {match_result.name}
                     ELSE UNCHANGED <<matches_found, sheet2_data,
                                      matched_sheet2_rows, matched_sheet1_names>>
                  /\ resolved' = resolved
                         \cup {[index |-> i,
                                found |-> match_result.found /\ ~taken]}
    /\ UNCHANGED <<pc, message, next_row, exportVars, coverage, toolVars,
                   attrVars, normVars, loadVars, sheet2_in, suffix, fileVars,
                   odooVars, written>>

\* the body of "for row in sheet2_data:" for a row that has not been
\* resolved, whichever it is: per-row resolution in any order
ResolveRow ==
    /\ pc = "filled"
    /\ \E i \in (1..Len(sheet2_data)) \ {e.index : e \in resolved} :
           /\ row' = sheet2_data[i]
           /\ IF find_match_raises(sheet2_data[i], sheet1_data)
              THEN /\ Raise(AttributeErrorMessage)
                   /\ UNCHANGED <<match, sheet2_data, matches_found,
                                  matched_sheet2_rows, matched_sheet1_names,
                                  resolved>>
              ELSE LET match_result == find_match(sheet2_data[i], sheet1_data,
                                                  sheet1_normalized)
                   IN  /\ match' = match_result
                       /\ IF match_result.found
                          THEN LET updated == MatchedRow(sheet2_data[i],
                                                         match_result.data)
                               IN  /\ matches_found' = matches_found + 1
                                   /\ sheet2_data' =
                                          [sheet2_data EXCEPT ![i] = updated]
                                   /\ matched_sheet2_rows' =
                                          Append(matched_sheet2_rows, updated)
                                   /\ matched_sheet1_names' =
                                          matched_sheet1_names
                                              \cup {match_result.name}
                          ELSE UNCHANGED <<matches_found, sheet2_data,
                                           matched_sheet2_rows,
                                           matched_sheet1_names>>
                       /\ resolved' = resolved
                              \cup {[index |-> i, found |-> match_result.found]}
                       /\ UNCHANGED <<pc, message>>
    /\ UNCHANGED <<next_row, exportVars, coverage, toolVars, attrVars, normVars,
                   loadVars, sheet2_in, suffix, fileVars, odooVars, written>>

\* "for row in sheet2_data:" in input order, after k passes: the rows and
\* what find_match returned for each
RECURSIVE matching_loop(_, _, _, _)
matching_loop(rows, d, n, k) ==
    IF k = 0 THEN [sheet2_data |-> rows, found |-> <<>>]
    ELSE LET before == matching_loop(rows, d, n, k - 1)
             match_result == find_match(before.sheet2_data[k], d, n)
         IN  [sheet2_data |->
                  IF match_result.found
                  THEN [before.sheet2_data EXCEPT
                           ![k] = MatchedRow(@, match_result.data)]
                  ELSE before.sheet2_data,
              found |-> Append(before.found, match_result.found)]

\* the loop is over: the matched rows are written to output_file
WriteMappedOutput ==
    /\ pc = "filled"
    /\ next_row > Len(sheet2_data)
    /\ written' = Append(written, Report("mapped_output.csv", "sheet2"))
    /\ pc' = "mapped"
    /\ UNCHANGED <<exportVars, resolved, coverage,
                   toolVars, attrVars, normVars, loadVars, fillVars, row, suffix, match, fileVars,
                   odooVars, loopVars, message>>

\* the attributes, product templates and product variants files, from the
\* matched rows by key
WriteOdooFiles ==
    /\ pc = "mapped"
    /\ matched_lookup' =
           build_matched_lookup(matched_sheet2_rows, sheet1_full_data)
    /\ written' = written \o OdooReports(odoo_variant_lookup, attribute_name_to_id,
                                         attribute_value_name_to_id)
    /\ pc' = "odoo"
    /\ UNCHANGED <<unmapped_sheet1_rows, shopify_update, resolved, coverage,
                   toolVars, attrVars, normVars, loadVars, fillVars, row,
                   suffix, match, fileVars, odooVars, loopVars, message>>

\* the unmapped, Shopify update, duplicates and categories files, then
\* "Processing complete!"
WriteSheet1Reports ==
    /\ pc = "odoo"
    /\ IF sheet1_full_data # <<>>
       THEN /\ unmapped_sheet1_rows' =
                   unmapped_rows(sheet1_full_data, matched_sheet1_names)
            /\ shopify_update' =
                   shopify_update_rows(sheet2_data, matched_sheet2_rows,
                                       sheet1_full_data)
       ELSE UNCHANGED <<unmapped_sheet1_rows, shopify_update>>
    /\ written' = written \o Sheet1Reports(sheet1_full_data, duplicate_skus)
    /\ pc' = "done"
    /\ UNCHANGED <<matched_lookup, resolved, coverage, toolVars, attrVars,
                   normVars, loadVars, fillVars, row, suffix, match, fileVars,
                   odooVars, loopVars, message>>

\* the body that find_missing_skus and find_missing_odoo_variant_skus share
\* (they differ in the files only): the reference identifiers that the
\* other file does not hold, collected from the set and sorted by identifier;
\* coverage keeps the figures of the lines "Missing SKUs:" and "Coverage:"
FindMissing(done, file) ==
    /\ LET sheet1_skus == load_sheet1_skus(first_file)
           variant_skus == load_product_variants_skus(second_file)
           missing_skus == sheet1_skus \ variant_skus
       IN  IF sheet1_skus = {}
           THEN Raise(ZeroDivisionMessage) /\ UNCHANGED <<reports, coverage>>
           ELSE /\ coverage' = [covered |-> Cardinality(variant_skus),
                                reference |-> Cardinality(sheet1_skus),
                                missing |-> Cardinality(missing_skus)]
                /\ \E order \in Orders(missing_skus) :
                       reports' = reports
                           \o ReportIf(missing_skus, file, sorted(order))
                /\ pc' = done
                /\ UNCHANGED message
    /\ UNCHANGED <<exportVars, resolved,
                   normVars, loadVars, fillVars, row, suffix, match, fileVars,
                   odooVars, loopVars, written, first_file, second_file,
                   attrVars>>

\* find_missing_skus(sheet1_file, product_variants_file)
FindMissingSkus ==
    /\ pc = "start"
    /\ FindMissing("missing_skus", MissingSkusFile)

\* find_missing_odoo_variant_skus(sheet1_file, odoo_variant_file)
FindMissingOdooVariantSkus ==
    /\ pc = "start"
    /\ FindMissing("missing_variant_skus", MissingVariantSkusFile)

\* find_missing_shopify_rows(mapped_output_file, shopify_update_file)
FindMissingShopifyRows ==
    /\ pc = "start"
    /\ LET rows == load_mapped_output_handles(first_file)
           shopify_keys == load_shopify_update_handles(second_file)
           missing_keys == DictKeys(rows) \ shopify_keys
       IN  IF rows = <<>>
           THEN Raise(ZeroDivisionMessage) /\ UNCHANGED <<reports, coverage>>
           ELSE /\ coverage' = [covered |-> Cardinality(shopify_keys),
                                reference |-> Len(rows),
                                missing |-> Cardinality(missing_keys)]
                /\ \E order \in Orders(missing_keys) :
                       LET missing_details ==
                               [i \in 1..Len(order) |->
                                   [row_number |-> DictGet(rows, order[i]),
                                    key |-> order[i]]]
                       IN  reports' = reports
                               \o ReportIf(missing_keys, MissingRowsFile,
                                           sort_by_row_number(missing_details))
                /\ pc' = "missing_rows"
                /\ UNCHANGED message
    /\ UNCHANGED <<exportVars, resolved,
                   normVars, loadVars, fillVars, row, suffix, match, fileVars,
                   odooVars, loopVars, written, first_file, second_file,
                   attrVars>>

\* analyze_shopify_extra_rows(mapped_output_file, shopify_update_file): the
\* extra rows are written in the order of "for key in extra_keys", the
\* duplicates in the order of the dict
AnalyzeShopifyExtraRows ==
    /\ pc = "start"
    /\ LET mapped_keys == load_shopify_update_handles(first_file)
           details == load_shopify_update_details(second_file)
           extra_keys == DictKeys(details) \ mapped_keys
           duplicate_keys == SelectSeq(details, LAMBDA e : Len(e.val) > 1)
           duplicate_rows ==
               Concat([i \in 1..Len(duplicate_keys) |->
                          [j \in 1..Len(duplicate_keys[i].val) |->
                              [row_number |-> duplicate_keys[i].val[j],
                               key |-> duplicate_keys[i].key]]])
       IN  \E order \in Orders(extra_keys) :
               reports' = reports
                   \o ReportIf(extra_keys, ExtraRowsFile,
                               [i \in 1..Len(order) |->
                                   [row_number |-> DictGet(details, order[i])[1],
                                    key |-> order[i]]])
                   \o ReportIf(DictKeys(duplicate_keys), DuplicateRowsFile,
                               duplicate_rows)
    /\ pc' = "extra_rows"
    /\ UNCHANGED <<exportVars, resolved, coverage,
                   normVars, loadVars, fillVars, row, suffix, match, fileVars,
                   odooVars, loopVars, written, message, first_file,
                   second_file, attrVars>>

\* the rows of one comparison report: "for sku in sorted(skus): if sku in
\* details"
ComparisonRows(order, details) ==
    SelectSeq(sorted(order), LAMBDA sku : sku \in details)

\* compare_missing_sku_lists()
CompareMissingSkuLists ==
    /\ pc = "start"
    /\ LET missing_skus_1 == load_missing_skus_from_csv(first_file)
           missing_skus_2 == load_missing_skus_from_csv(second_file)
           only_in_first == missing_skus_1 \ missing_skus_2
           only_in_second == missing_skus_2 \ missing_skus_1
           common_skus == missing_skus_1 \cap missing_skus_2
           details_1 == load_missing_skus_with_details(first_file)
           details_2 == load_missing_skus_with_details(second_file)
       IN  IF missing_skus_1 = {} \/ missing_skus_2 = {}
           THEN message' = CouldNotLoadMessage /\ UNCHANGED reports
           ELSE /\ \E first \in Orders(only_in_first),
                      second \in Orders(only_in_second),
                      common \in Orders(common_skus) :
                       reports' = reports
                           \o ReportIf(only_in_first, OnlyFirstFile,
                                       ComparisonRows(first, details_1))
                           \o ReportIf(only_in_second, OnlySecondFile,
                                       ComparisonRows(second, details_2))
                           \o ReportIf(common_skus, BothFile,
                                       ComparisonRows(common, details_1))
                /\ UNCHANGED message
    /\ pc' = "compared"
    /\ UNCHANGED <<exportVars, resolved, coverage,
                   normVars, loadVars, fillVars, row, suffix, match, fileVars,
                   odooVars, loopVars, written, first_file, second_file,
                   attrVars>>

\* normalize_attribute_name(attr_name) for the label
NormalizeAttributeName ==
    /\ pc = "start"
    /\ canonical' = normalize_attribute_name(label)
    /\ pc' = "once"
    /\ UNCHANGED <<exportVars, resolved, coverage,
                   normVars, loadVars, fillVars, row, suffix, match, fileVars,
                   odooVars, loopVars, written, message, toolVars, label,
                   canonical_again>>

\* the canonical label is normalized again
NormalizeAttributeNameAgain ==
    /\ pc = "once"
    /\ canonical_again' = normalize_attribute_name(canonical)
    /\ pc' = "twice"
    /\ UNCHANGED <<exportVars, resolved, coverage,
                   normVars, loadVars, fillVars, row, suffix, match, fileVars,
                   odooVars, loopVars, written, message, toolVars, label,
                   canonical>>

\* a run whose rows are resolved in any order
InitAnyOrder ==
    /\ pc = "start"
    /\ master \in RunCatalogs
    /\ sheet2_in \in RunExports
    /\ sheet1_data = <<>> /\ sheet1_normalized = <<>>
    /\ sheet1_full_data = <<>> /\ duplicate_skus = <<>>
    /\ sheet2_data = <<>>
    /\ NormIdle /\ RowIdle /\ RunIdle
    /\ ToolIdle /\ AttrIdle /\ ExportIdle

NextAnyOrder ==
    \/ LoadSheet1 \/ LoadOdooAttributeMappings \/ LoadOdooVariantExport
    \/ ReadSheet2 \/ FillMissingTitles \/ ResolveRow

SpecAnyOrder == InitAnyOrder /\ [][NextAnyOrder]_vars

\* the matcher: the master index is built, then one storefront row is resolved
Init ==
    /\ pc = "start"
    /\ master \in MatchCatalogs
    /\ row \in MatchRows
    /\ sheet1_data = <<>> /\ sheet1_normalized = <<>>
    /\ sheet1_full_data = <<>> /\ duplicate_skus = <<>>
    /\ suffix = <<>> /\ match = NoMatch(<<>>)
    /\ NormIdle /\ FillIdle
    /\ RunIdle
    /\ ToolIdle /\ AttrIdle /\ ExportIdle

Next == LoadSheet1 \/ FindMatch

Spec == Init /\ [][Next]_vars

\* the text normalizers on their own
InitNorm ==
    /\ pc = "text"
    /\ text \in Texts
    /\ norm1 = <<>> /\ norm2 = <<>> /\ dnorm1 = <<>> /\ dnorm2 = <<>>
    /\ LoadIdle /\ FillIdle /\ RowIdle
    /\ RunIdle
    /\ ToolIdle /\ AttrIdle /\ ExportIdle

NextNorm == Normalize \/ NormalizeAgain

SpecNorm == InitNorm /\ [][NextNorm]_vars

\* the master index on its own
InitLoad ==
    /\ pc = "start"
    /\ master \in LoadCatalogs
    /\ sheet1_data = <<>> /\ sheet1_normalized = <<>>
    /\ sheet1_full_data = <<>> /\ duplicate_skus = <<>>
    /\ NormIdle /\ FillIdle /\ RowIdle
    /\ RunIdle
    /\ ToolIdle /\ AttrIdle /\ ExportIdle

NextLoad == LoadSheet1

SpecLoad == InitLoad /\ [][NextLoad]_vars

\* the option suffix on its own
InitSuffix ==
    /\ pc = "row"
    /\ row \in SuffixRows
    /\ suffix = <<>> /\ match = NoMatch(<<>>)
    /\ NormIdle /\ LoadIdle /\ FillIdle
    /\ RunIdle
    /\ ToolIdle /\ AttrIdle /\ ExportIdle

NextSuffix == BuildOptionSuffix

SpecSuffix == InitSuffix /\ [][NextSuffix]_vars

\* the title-filling pre-pass on its own
InitFill ==
    /\ pc = "read"
    /\ sheet2_in \in FillExports
    /\ sheet2_data = sheet2_in
    /\ NormIdle /\ LoadIdle /\ RowIdle
    /\ RunIdle
    /\ ToolIdle /\ AttrIdle /\ ExportIdle

NextFill == FillMissingTitles

SpecFill == InitFill /\ [][NextFill]_vars

\* the scenarios A and B: the index is built from a catalog of the scenario
\* records, then a scenario row is resolved
InitScenario ==
    /\ pc = "start"
    /\ master \in ScenarioCatalogs
    /\ row \in ScenarioRows
    /\ sheet1_data = <<>> /\ sheet1_normalized = <<>>
    /\ sheet1_full_data = <<>> /\ duplicate_skus = <<>>
    /\ suffix = <<>> /\ match = NoMatch(<<>>)
    /\ NormIdle /\ FillIdle
    /\ RunIdle
    /\ ToolIdle /\ AttrIdle /\ ExportIdle

NextScenario == LoadSheet1 \/ FindMatch

SpecScenario == InitScenario /\ [][NextScenario]_vars

\* a whole run of process_csv_mapping under __main__
InitRun ==
    /\ pc = "start"
    /\ \E c \in RunFileCases :
           /\ files = c.files
           /\ attribute_export = c.attribute_export
           /\ variant_export = c.variant_export
    /\ master \in RunCatalogs
    /\ sheet2_in \in RunExports
    /\ sheet1_data = <<>> /\ sheet1_normalized = <<>>
    /\ sheet1_full_data = <<>> /\ duplicate_skus = <<>>
    /\ sheet2_data = <<>>
    /\ NormIdle /\ RowIdle /\ RunStart
    /\ ToolIdle /\ AttrIdle /\ ExportIdle

NextRun ==
    \/ LoadSheet1 \/ LoadOdooAttributeMappings \/ LoadOdooVariantExport
    \/ ReadSheet2 \/ FillMissingTitles \/ MatchRow
    \/ WriteMappedOutput \/ WriteOdooFiles \/ WriteSheet1Reports

SpecRun == InitRun /\ [][NextRun]_vars

\* one reconciliation tool on two input files
InitTools ==
    /\ pc = "start"
    /\ first_file \in ToolFiles
    /\ second_file \in ToolFiles
    /\ reports = <<>> /\ coverage = NoCoverage
    /\ NormIdle /\ LoadIdle /\ FillIdle /\ RowIdle /\ RunIdle /\ AttrIdle
    /\ ExportIdle

NextTools ==
    \/ FindMissingSkus \/ FindMissingOdooVariantSkus \/ FindMissingShopifyRows
    \/ AnalyzeShopifyExtraRows \/ CompareMissingSkuLists

SpecTools == InitTools /\ [][NextTools]_vars

\* an attribute label, normalized and normalized again
InitAttr ==
    /\ pc = "start"
    /\ label \in AttributeLabels
    /\ canonical = <<>> /\ canonical_again = <<>>
    /\ NormIdle /\ LoadIdle /\ FillIdle /\ RowIdle /\ RunIdle /\ ToolIdle
    /\ ExportIdle

NextAttr == NormalizeAttributeName \/ NormalizeAttributeNameAgain

SpecAttr == InitAttr /\ [][NextAttr]_vars

-----------------------------------------------------------------------------
(* Properties.  A field of a row is read the way the code reads it, with   *)
(* the surrounding white space stripped.                                   *)

Field(r, key) == Strip(Get(r, key, <<>>))

\* the candidate names of a row as the Key Builder is described: 1 and 2
\* are the title with the option suffix in dash form and in " - " form, 3
\* and 4 the same with " Puffs" removed from the title, 5 the handle with
\* the suffix, normalized
ExpectedKey(r, j) ==
    LET title == Field(r, "Title")
        bare == Replace(Replace(title, PuffsStr, <<>>), <<"ndash">>, <<"-">>)
        dashed == build_option_suffix(r)
        spaced == Replace(dashed, <<"-">>, <<" ","-"," ">>)
    IN  CASE j = 1 -> title \o dashed
          [] j = 2 -> title \o spaced
          [] j = 3 -> bare \o dashed
          [] j = 4 -> bare \o spaced
          [] OTHER -> normalize_string(
                          Replace(Field(r, "Handle"), <<"-">>, <<" ">>) \o dashed)

\* whether candidate j applies to the row
Applies(r, j) ==
    CASE j = 1 -> Field(r, "Title") # <<>>
      [] j = 2 -> Field(r, "Title") # <<>> /\ build_option_suffix(r) # <<>>
      [] j \in {3, 4} -> /\ Field(r, "Title") # <<>>
                         /\ build_option_suffix(r) # <<>>
                         /\ Contains(Field(r, "Title"), PuffsStr)
      [] OTHER -> Field(r, "Handle") # <<>>

\* whether candidate j of the row is present in the table it is matched
\* against: the exact table for 1..4, the normalized table for 5
Present(r, j) ==
    IF j <= 4 THEN DictHas(sheet1_data, ExpectedKey(r, j))
    ELSE DictHas(sheet1_normalized, ExpectedKey(r, j))

\* C1: the text normalizers are idempotent: normalizing the result of
\* normalize_string again gives the same string, in csv_mapper and in
\* debug_mapper.
C1_CsvIdempotent == pc = "renormalized" => norm2 = norm1

C1_DebugIdempotent == pc = "renormalized" => dnorm2 = dnorm1

C1_Idempotent == C1_CsvIdempotent /\ C1_DebugIdempotent

\* C2: find_match tries its candidates in the fixed order 1..5 and returns
\* at the first hit: when the result comes from candidate i, the lookups it
\* made are exactly the candidates up to i that apply to the row, in
\* increasing order, each with the key of that candidate; all before i are
\* absent from their table, i is present, and nothing after i is looked up.
C2_FixedOrderFirstHit ==
    (pc = "matched" /\ match.found) =>
        LET L == match.lookups
        IN  /\ L # <<>>
            /\ L[Len(L)].cand = match.cand
            /\ \A i \in 1..(Len(L) - 1) : L[i].cand < L[i + 1].cand
            /\ {L[i].cand : i \in 1..Len(L)}
                   = {j \in 1..match.cand : Applies(row, j)}
            /\ \A i \in 1..Len(L) : L[i].key = ExpectedKey(row, L[i].cand)
            /\ \A i \in 1..(Len(L) - 1) : ~Present(row, L[i].cand)
            /\ Present(row, match.cand)

\* C2 witness: the handle fallback hits after all four title candidates of a
\* " Puffs" row were looked up and missed.
C2_Witness ==
    /\ pc = "matched" /\ match.found /\ match.cand = 5
    /\ Len(match.lookups) = 5
    /\ \A j \in 1..4 : Applies(row, j) /\ ~Present(row, j)

TitledInGroup(rows, i) ==
    {j \in 1..Len(rows) : /\ Field(rows[j], "Handle") = Field(rows[i], "Handle")
                          /\ Field(rows[j], "Title") # <<>>}

Least(S) == CHOOSE x \in S : \A y \in S : x <= y

Greatest(S) == CHOOSE x \in S : \A y \in S : y <= x

\* what C5 says of row i, the rows of a handle group being those with the
\* same handle
FilledAsClaimed(i) ==
    LET titled == TitledInGroup(sheet2_in, i)
    IN  IF Field(sheet2_in[i], "Title") # <<>> THEN sheet2_data[i] = sheet2_in[i]
        ELSE IF titled = {} THEN sheet2_data[i] = sheet2_in[i]
        ELSE /\ sheet2_data[i]["Title"] = Field(sheet2_in[Least(titled)], "Title")
             /\ sheet2_data[i]["Handle"] = sheet2_in[i]["Handle"]

\* C5 (as claimed): after fill_missing_titles every row with an empty title
\* whose handle group has a titled row carries the title of the first such
\* row; rows of groups without a titled row and rows that had a title are
\* unchanged, and so are the number and the order of the rows.
C5_FillFromGroup ==
    pc = "filled" =>
        /\ Len(sheet2_data) = Len(sheet2_in)
        /\ \A i \in 1..Len(sheet2_in) : FilledAsClaimed(i)

\* C5 (amended): the same for the rows with a non-empty handle; a row with
\* an empty handle belongs to no group and is unchanged.
C5_FillFromNamedGroup ==
    pc = "filled" =>
        /\ Len(sheet2_data) = Len(sheet2_in)
        /\ \A i \in 1..Len(sheet2_in) :
               IF Field(sheet2_in[i], "Handle") = <<>>
               THEN sheet2_data[i] = sheet2_in[i]
               ELSE FilledAsClaimed(i)

\* C5 witness: a titleless row is filled from a titled row that comes after
\* it, and a later row of the group carries another title.
C5_Witness ==
    /\ pc = "filled"
    /\ \E i, j, k \in 1..Len(sheet2_in) :
           /\ i < j /\ j < k
           /\ Field(sheet2_in[i], "Handle") # <<>>
           /\ Field(sheet2_in[i], "Title") = <<>>
           /\ TitledInGroup(sheet2_in, i) = {j, k}
           /\ Field(sheet2_in[j], "Title") # Field(sheet2_in[k], "Title")
           /\ sheet2_data[i]["Title"] = Field(sheet2_in[j], "Title")

\* the named rows of the master catalog, and the record of a row
Named == {i \in 1..Len(master) : Field(master[i], "Name") # <<>>}

RecordOf(i) ==
    [internal_reference |-> Field(master[i], "Internal Reference"),
     barcode |-> master[i]["Barcode"]]

NoRepeatedKey(d) == \A i, j \in 1..Len(d) : d[i].key = d[j].key => i = j

\* C6: the master index is last-write-wins: the exact table holds each
\* non-empty name once, with the identifier and barcode of the last row
\* carrying it; the normalized table holds each normalized name once, with
\* the record of the last row whose normalized name it is.
C6_LastWriteWins ==
    pc = "loaded" =>
        /\ NoRepeatedKey(sheet1_data) /\ NoRepeatedKey(sheet1_normalized)
        /\ DictKeys(sheet1_data) = {Field(master[i], "Name") : i \in Named}
        /\ DictKeys(sheet1_normalized)
               = {normalize_string(Field(master[i], "Name")) : i \in Named}
        /\ \A i \in Named :
               /\ DictGet(sheet1_data, Field(master[i], "Name")) =
                      RecordOf(Greatest({j \in Named :
                          Field(master[j], "Name") = Field(master[i], "Name")}))
               /\ DictGet(sheet1_normalized, normalize_string(Field(master[i], "Name"))) =
                      RecordOf(Greatest({j \in Named :
                          normalize_string(Field(master[j], "Name"))
                              = normalize_string(Field(master[i], "Name"))}))

\* C6 witness: two rows with different names and records share a normalized
\* name, and the normalized table holds the record of the later one.
C6_Witness ==
    /\ pc = "loaded"
    /\ \E i, j \in Named :
           /\ i < j
           /\ Field(master[i], "Name") # Field(master[j], "Name")
           /\ normalize_string(Field(master[i], "Name"))
                  = normalize_string(Field(master[j], "Name"))
           /\ RecordOf(i) # RecordOf(j)
           /\ DictGet(sheet1_normalized, normalize_string(Field(master[i], "Name")))
                  = RecordOf(j)

\* the row at position i + 1 of the file has an entry in the duplicate list
Audited(i) == \E e \in 1..Len(duplicate_skus) : duplicate_skus[e].row = i + 1

\* C7: no master row is silently lost: when a later named row overwrites an
\* earlier one in the exact or in the normalized table, both are in the
\* duplicate list, and so is every named row whose identifier repeats that
\* of an earlier named row.
C7_NoRowSilentlyLost ==
    pc = "loaded" =>
        \A i, j \in Named :
            i < j =>
                /\ (normalize_string(Field(master[i], "Name"))
                        = normalize_string(Field(master[j], "Name")))
                       => (Audited(i) /\ Audited(j))
                /\ (/\ Field(master[j], "Internal Reference") # <<>>
                    /\ Field(master[i], "Internal Reference")
                           = Field(master[j], "Internal Reference"))
                       => Audited(j)

\* C8: Scenario C: a catalog of two rows with the same non-empty identifier
\* and different non-empty names gives exactly one duplicate pair, the first
\* occurrence and the second, and both names are in the exact table.
C8_ScenarioC ==
    (/\ pc = "loaded"
     /\ Len(master) = 2
     /\ Named = {1, 2}
     /\ Field(master[1], "Internal Reference") # <<>>
     /\ Field(master[1], "Internal Reference") = Field(master[2], "Internal Reference")
     /\ Field(master[1], "Name") # Field(master[2], "Name"))
    => /\ duplicate_skus =
              <<[sku |-> Field(master[1], "Internal Reference"),
                 name |-> Field(master[1], "Name"), row |-> 2, duplicate_of |-> 0],
                [sku |-> Field(master[2], "Internal Reference"),
                 name |-> Field(master[2], "Name"), row |-> 3, duplicate_of |-> 2]>>
       /\ DictKeys(sheet1_data) = {Field(master[1], "Name"), Field(master[2], "Name")}
       /\ Len(sheet1_data) = 2

\* C8 witness: such a catalog has been loaded.
C8_Witness ==
    /\ pc = "loaded" /\ Len(master) = 2 /\ Named = {1, 2}
    /\ Field(master[1], "Internal Reference") # <<>>
    /\ Field(master[1], "Internal Reference") = Field(master[2], "Internal Reference")
    /\ Field(master[1], "Name") # Field(master[2], "Name")
    /\ Len(duplicate_skus) = 2

\* each named row's name, looked up by itself and by its normalized form,
\* yields the record of that row
OwnRecords ==
    \A i \in Named :
        /\ DictHas(sheet1_data, Field(master[i], "Name"))
        /\ DictGet(sheet1_data, Field(master[i], "Name")) = RecordOf(i)
        /\ DictHas(sheet1_normalized, normalize_string(Field(master[i], "Name")))
        /\ DictGet(sheet1_normalized, normalize_string(Field(master[i], "Name")))
               = RecordOf(i)

\* C9 (as claimed): in a catalog without a repeated display name every name
\* yields its own record in the exact and in the normalized table.
C9_DistinctNamesOwnRecord ==
    (/\ pc = "loaded"
     /\ \A i, j \in Named :
            Field(master[i], "Name") = Field(master[j], "Name") => i = j)
    => OwnRecords

\* C9 (amended): in a catalog in which no two display names have the same
\* normalized form every name yields its own record in both tables.
C9_DistinctNormalizedOwnRecord ==
    (/\ pc = "loaded"
     /\ \A i, j \in Named :
            normalize_string(Field(master[i], "Name"))
                = normalize_string(Field(master[j], "Name")) => i = j)
    => OwnRecords

\* C9 witness: two named rows with different normalized names and different
\* records have been loaded.
C9_Witness ==
    /\ pc = "loaded" /\ Named = {1, 2}
    /\ normalize_string(Field(master[1], "Name"))
           # normalize_string(Field(master[2], "Name"))
    /\ RecordOf(1) # RecordOf(2)
    /\ Len(sheet1_normalized) = 2

\* the part of the option suffix that slot i contributes: "-" and the value,
\* or nothing when the slot has no value or is the pair Title / Default Title
SuffixPart(r, i) ==
    LET name == Field(r, OptionNameKey(i))
        value == Field(r, OptionValueKey(i))
    IN  IF value = <<>> \/ (name = TitleStr /\ value = DefaultTitleStr)
        THEN <<>>
        ELSE <<"-">> \o value

\* C10: the option suffix is made of the option values in slot order 1, 2,
\* 3, each preceded by "-", a slot being left out only when it has no value
\* or its name is "Title" and its value "Default Title"; it is empty when no
\* value is included.
C10_OptionSuffix ==
    pc = "suffixed" =>
        suffix = SuffixPart(row, 1) \o SuffixPart(row, 2) \o SuffixPart(row, 3)

\* C10 witness: slot 1 is the pair Title / Default Title and is left out,
\* slot 2 has the value "Default Title" under another name and is kept,
\* slot 3 follows it.
C10_Witness ==
    /\ pc = "suffixed"
    /\ Field(row, "Option1 Name") = TitleStr
    /\ Field(row, "Option1 Value") = DefaultTitleStr
    /\ Field(row, "Option2 Name") # TitleStr
    /\ Field(row, "Option2 Value") = DefaultTitleStr
    /\ Field(row, "Option3 Value") = <<"r">>
    /\ suffix = <<"-">> \o DefaultTitleStr \o <<"-","r">>

\* the position in the lookups of find_match of candidate j, 0 when the
\* candidate was not looked up
LookupAt(j) ==
    LET L == match.lookups
        at == {i \in 1..Len(L) : L[i].cand = j}
    IN  IF at = {} THEN 0 ELSE CHOOSE i \in at : TRUE

\* C11: for every row whose title contains " Puffs" and whose candidates 1
\* and 2 are absent from the exact table, find_match looks up the title with
\* " Puffs" removed and en-dashes replaced by hyphens, followed by the option
\* suffix in dash form, and when that is absent the same with the suffix in
\* " - " form, both before the handle fallback.
C11_PuffsFormsLookedUp ==
    (/\ pc = "matched"
     /\ Contains(Field(row, "Title"), PuffsStr)
     /\ ~Present(row, 1) /\ ~Present(row, 2))
    => LET L == match.lookups
           third == LookupAt(3)
           fourth == LookupAt(4)
           fifth == LookupAt(5)
       IN  /\ third > 0
           /\ L[third].key = ExpectedKey(row, 3)
           /\ fifth > 0 => third < fifth
           /\ ~Present(row, 3) =>
                  /\ fourth > third
                  /\ L[fourth].key = ExpectedKey(row, 4)
                  /\ fifth > 0 => fourth < fifth


\* C12: scenario B: for the row with the title "Mango Kit" and the option
\* value "Blue" the option suffix is "-Blue" and candidate 1 is
\* "Mango Kit-Blue"; when the title candidates are absent from the exact
\* table the handle fallback is tried, and the key it looks up has no "kit"
\* in it, nor has any key of the normalized table.
C12_ScenarioB ==
    (/\ pc = "matched"
     /\ Field(row, "Title") = MangoKitTitle
     /\ Field(row, "Option1 Value") = BlueStr)
    => /\ build_option_suffix(row) = <<"-">> \o BlueStr
       /\ match.lookups[1] = [cand |-> 1, key |-> MangoKitTitle \o <<"-">> \o BlueStr]
       /\ (/\ ~Present(row, 1) /\ ~Present(row, 2)
           /\ Field(row, "Handle") # <<>>)
          => /\ LookupAt(5) > 0
             /\ ~Contains(match.lookups[LookupAt(5)].key, KitStr)
             /\ \A i \in 1..Len(sheet1_normalized) :
                    ~Contains(sheet1_normalized[i].key, KitStr)

\* C13 (as claimed): scenario A: the name "Wild Berry Ice 5000 Puffs
\* Disposable" and the handle "wild-berry-ice-disposable" have the same
\* normalized form, so the row with that handle and no options resolves
\* through the handle fallback to the master record of that name.
C13_ScenarioA ==
    (/\ pc = "matched"
     /\ Field(row, "Title") = <<>> /\ build_option_suffix(row) = <<>>
     /\ Field(row, "Handle") = WildBerryHandle
     /\ DictHas(sheet1_data, WildBerryName))
    => /\ normalize_string(WildBerryName) = normalize_string(WildBerryHandle)
       /\ debug_normalize_string(WildBerryName)
              = debug_normalize_string(WildBerryHandle)
       /\ match.found /\ match.cand = 5
       /\ match.name = WildBerryName
       /\ match.data = DictGet(sheet1_data, WildBerryName)

\* C13 (amended): both normalizers keep the puff count: the name "Wild Berry
\* Ice 5000 Puffs Disposable" normalizes to "wildberryice5000disposable",
\* which is the normalized form of the handle
\* "wild-berry-ice-5000-disposable" and not that of
\* "wild-berry-ice-disposable"; so a row with no title and no options
\* resolves through the handle fallback to the master record of that name
\* when its handle is the former, and is left unmatched when it is the latter.
C13_ScenarioAWithCount ==
    (/\ pc = "matched"
     /\ Field(row, "Title") = <<>> /\ build_option_suffix(row) = <<>>
     /\ DictHas(sheet1_data, WildBerryName))
    => /\ normalize_string(WildBerryName) = WildBerryKey
       /\ debug_normalize_string(WildBerryName) = WildBerryKey
       /\ normalize_string(WildBerryCountHandle) = WildBerryKey
       /\ debug_normalize_string(WildBerryCountHandle) = WildBerryKey
       /\ normalize_string(WildBerryHandle) # WildBerryKey
       /\ debug_normalize_string(WildBerryHandle) # WildBerryKey
       /\ Field(row, "Handle") = WildBerryCountHandle
          => /\ match.found /\ match.cand = 5
             /\ match.name = WildBerryName
             /\ match.data = DictGet(sheet1_data, WildBerryName)
       /\ Field(row, "Handle") = WildBerryHandle => ~match.found

\* C13 witness: the row with the handle "wild-berry-ice-5000-disposable" was
\* resolved through the handle fallback to the record of scenario A.
C13_Witness ==
    /\ pc = "matched"
    /\ Field(row, "Handle") = WildBerryCountHandle
    /\ DictHas(sheet1_data, WildBerryName)
    /\ match.found /\ match.cand = 5 /\ match.name = WildBerryName


\* a pass of the matching loop has taken a row
RowTaken == DOMAIN row # {}

\* every field of every row holds a string
HoldStrings(rows) ==
    \A i \in 1..Len(rows) : \A k \in DOMAIN rows[i] : rows[i][k] # None

\* the format the file was written in, "" when it has not been written
WrittenAs(file) ==
    LET at == {i \in 1..Len(written) : written[i].file = file}
    IN  IF at = {} THEN "" ELSE written[CHOOSE i \in at : TRUE].format

\* C14: unmatched is a value, not a failure.  For the row a pass of the
\* matching loop has taken: with an empty title only the handle fallback is
\* looked up, with an empty handle only the title candidates, with neither
\* nothing is looked up; when every lookup misses find_match returns None; and
\* in none of these cases does the run fail: the row stays as it was and the
\* run goes on with the next row.
C14_UnmatchedIsAValue ==
    LET title == Field(row, "Title")
        handle == Field(row, "Handle")
        L == match.lookups
        misses == \A i \in 1..Len(L) :
                      IF L[i].cand = 5
                      THEN ~DictHas(sheet1_normalized, L[i].key)
                      ELSE ~DictHas(sheet1_data, L[i].key)
    IN  (RowTaken /\ (title = <<>> \/ handle = <<>>)) =>
            /\ pc # "failed"
            /\ title = <<>> => \A i \in 1..Len(L) : L[i].cand = 5
            /\ handle = <<>> => \A i \in 1..Len(L) : L[i].cand # 5
            /\ (title = <<>> /\ handle = <<>>) => L = <<>>
            /\ misses => ~match.found
            /\ ~match.found =>
                   /\ sheet2_data[next_row - 1] = row
                   /\ pc \in {"filled", "mapped", "odoo", "done"}

\* C15: a malformed master or storefront row never fails the run: when both
\* required files exist the run does not end with an exception, whatever
\* fields the rows lack, and it goes on to write the mapped output.
C15_MalformedRowNeverFails ==
    ({Sheet1File, Sheet2File} \subseteq files) =>
        /\ pc # "failed"
        /\ message = NoMessage

\* C16: when a required file does not exist the run ends with the message
\* that names the missing file, and no report has been written.
C16_MissingRequiredSourceAborts ==
    /\ Sheet1File \notin files =>
           /\ written = <<>>
           /\ pc \in {"start", "failed"}
           /\ pc = "failed" => message = FileNotFoundMessage(Sheet1File)
    /\ (Sheet1File \in files /\ Sheet2File \notin files) =>
           /\ written = <<>>
           /\ pc \in {"start", "loaded", "attributes", "variants", "failed"}
           /\ pc = "failed" => message = FileNotFoundMessage(Sheet2File)

\* what C17 says of the loaders and of the end of the run: the loader of an
\* absent side file returns empty mappings, and the run fails only for a
\* required file or for a row that holds no string, never for a side file
SideFilesOptional ==
    /\ AttributeFile \notin files =>
           attribute_name_to_id = <<>> /\ attribute_value_name_to_id = <<>>
    /\ VariantFile \notin files => odoo_variant_lookup = <<>>
    /\ pc \in {"loaded", "attributes"} => message = NoMessage
    /\ pc = "failed" =>
           /\ message \notin {FileNotFoundMessage(AttributeFile),
                              FileNotFoundMessage(VariantFile)}
           /\ \/ ~({Sheet1File, Sheet2File} \subseteq files)
              \/ ~HoldStrings(master) \/ ~HoldStrings(sheet2_in)

\* C17 as stated: when a side file is absent its loader returns empty
\* mappings, the run is not terminated, and the templates and the variants
\* files are written in the name-based format; the external-ID format is
\* used only with non-empty attribute mappings.
C17_AbsentSideFileNameBased ==
    /\ SideFilesOptional
    /\ (AttributeFile \notin files \/ VariantFile \notin files) =>
           /\ WrittenAs(TemplatesFile) \in {"", "name"}
           /\ WrittenAs(VariantsFile) \in {"", "name"}
    /\ "external_id" \in {WrittenAs(TemplatesFile), WrittenAs(VariantsFile)} =>
           attribute_name_to_id # <<>> /\ attribute_value_name_to_id # <<>>

\* C17, amended: each file falls back by what the absent side file would
\* have given.  Without the attribute export the templates file is
\* name-based and the variants file does not use attribute value ids;
\* without the variant export the variants file does not use variant ids
\* (it uses attribute value ids when the attribute mappings are non-empty);
\* without both, both files are name-based.  The external-ID format is used
\* only with non-empty attribute mappings, the variant-ID format only with a
\* non-empty variant lookup.
C17_AbsentSideFileFallsBack ==
    /\ SideFilesOptional
    /\ AttributeFile \notin files =>
           /\ WrittenAs(TemplatesFile) \in {"", "name"}
           /\ WrittenAs(VariantsFile) \in {"", "name", "variant_id"}
    /\ VariantFile \notin files =>
           WrittenAs(VariantsFile) \in {"", "name", "external_id"}
    /\ (AttributeFile \notin files /\ VariantFile \notin files) =>
           WrittenAs(VariantsFile) \in {"", "name"}
    /\ "external_id" \in {WrittenAs(TemplatesFile), WrittenAs(VariantsFile)} =>
           attribute_name_to_id # <<>> /\ attribute_value_name_to_id # <<>>
    /\ WrittenAs(VariantsFile) = "variant_id" => odoo_variant_lookup # <<>>
    /\ (WrittenAs(TemplatesFile) = "name" /\ AttributeFile \in files) =>
           attribute_name_to_id = <<>> \/ attribute_value_name_to_id = <<>>

\* a run without the variant export and with attribute mappings has written
\* both files with ids, and a run without either has written both by name
C17_Witness ==
    /\ pc = "done"
    /\ VariantFile \notin files
    /\ AttributeFile \in files
    /\ WrittenAs(TemplatesFile) = "external_id"
    /\ WrittenAs(VariantsFile) = "external_id"


\* the rows of the report written to the file, <<>> when it was not written
RowsOf(file) ==
    LET at == {i \in 1..Len(reports) : reports[i].file = file}
    IN  IF at = {} THEN <<>> ELSE reports[CHOOSE i \in at : TRUE].rows

Listed(q) == {q[i] : i \in 1..Len(q)}

\* C18: for the key sets A and B that compare_missing_sku_lists loads, an
\* empty one included, the three reports list A \ B, B \ A and A \cap B:
\* they are pairwise disjoint and together list every key of A \cup B
\* exactly once.
C18_ThreeWayPartition ==
    pc = "compared" =>
        LET A == load_missing_skus_from_csv(first_file)
            B == load_missing_skus_from_csv(second_file)
            only_in_first == RowsOf(OnlyFirstFile)
            only_in_second == RowsOf(OnlySecondFile)
            common == RowsOf(BothFile)
        IN  /\ Listed(only_in_first) = A \ B
            /\ Listed(only_in_second) = B \ A
            /\ Listed(common) = A \cap B
            /\ Listed(only_in_first) \cap Listed(only_in_second) = {}
            /\ Listed(only_in_first) \cap Listed(common) = {}
            /\ Listed(only_in_second) \cap Listed(common) = {}
            /\ Listed(only_in_first) \cup Listed(only_in_second)
                   \cup Listed(common) = A \cup B
            /\ Len(only_in_first) + Len(only_in_second) + Len(common)
                   = Cardinality(A \cup B)

\* the rows of a report ascend by identifier, or by row number
AscendingTexts(q) == \A i \in 1..(Len(q) - 1) : LessText(q[i], q[i + 1])

AscendingRows(q) ==
    \A i \in 1..(Len(q) - 1) : q[i].row_number < q[i + 1].row_number

AscendingKeys(q) == \A i \in 1..(Len(q) - 1) : LessText(q[i].key, q[i + 1].key)

\* C19: every report list of the reconciliation scripts is sorted by a
\* stable key: the missing-SKU reports and the three comparison reports by
\* identifier, the missing-rows report by row number, and the extra-rows
\* report by row number or by key; so the order of the rows does not change
\* from run to run.
C19_ReportsSorted ==
    /\ \A file \in {MissingSkusFile, MissingVariantSkusFile, OnlyFirstFile,
                    OnlySecondFile, BothFile} : AscendingTexts(RowsOf(file))
    /\ AscendingRows(RowsOf(MissingRowsFile))
    /\ AscendingRows(RowsOf(ExtraRowsFile)) \/ AscendingKeys(RowsOf(ExtraRowsFile))

FlavorStr == <<"F","l","a","v","o","r">>

NicotineLevelStr == <<"N","i","c","o","t","i","n","e"," ","L","e","v","e","l">>

StrengthStr == <<"S","t","r","e","n","g","t","h">>

CoilTypeColorStr ==
    <<"C","o","i","l"," ","T","y","p","e"," ","|"," ","C","o","l","o","r">>

ColorAndCoilTypeStr ==
    <<"C","o","l","o","r"," ","&"," ","C","o","i","l"," ","T","y","p","e">>

\* C20: normalize_attribute_name gives the canonical label of every label of
\* its table ('Flavor 1', 'Flavor 2', 'Flavors' give 'Flavor'; 'Nicotine
\* Strength', 'Strength' give 'Nicotine Level'; 'Color & Coil Type' gives
\* 'Coil Type | Color'), gives back unchanged every label that is not in the
\* table, and every label it gives is a fixed point: normalizing it again
\* gives the same label.
C20_AttributeNamesCanonical ==
    /\ pc \in {"once", "twice"} =>
           /\ label \in {FlavorStr \o <<" ","1">>, FlavorStr \o <<" ","2">>,
                         FlavorStr \o <<"s">>} => canonical = FlavorStr
           /\ label \in {<<"N","i","c","o","t","i","n","e"," ">> \o StrengthStr,
                         StrengthStr} => canonical = NicotineLevelStr
           /\ label = ColorAndCoilTypeStr => canonical = CoilTypeColorStr
           /\ label \in DictKeys(attribute_mapping) =>
                  canonical = DictGet(attribute_mapping, label)
           /\ label \notin DictKeys(attribute_mapping) => canonical = label
    /\ pc = "twice" => canonical_again = canonical

\* a synonym has been normalized twice, and so has a label outside the table
C20_Witness ==
    /\ pc = "twice"
    /\ label = ColorAndCoilTypeStr
    /\ canonical = CoilTypeColorStr
    /\ canonical_again = CoilTypeColorStr



\* the tables that load_sheet1 builds
MasterIndex ==
    <<sheet1_data, sheet1_normalized, sheet1_full_data, duplicate_skus>>

\* C21: the master index is read-only once built: no step of a run after
\* load_sheet1, and so no call of find_match and no pass of the matching
\* loop that writes 'Variant SKU' and 'Variant Barcode' into a row, adds,
\* removes or changes an entry of the exact-name table, the normalized-name
\* table or the duplicate list.
C21_MasterIndexReadOnly ==
    [][pc # "start" => UNCHANGED MasterIndex]_vars

\* the loop has written a master record's identifier into a row
C21_Witness ==
    /\ pc = "filled"
    /\ matches_found > 0
    /\ match.found
    /\ sheet2_data[next_row - 1]["Variant SKU"] = <<"S","1">>
    /\ Len(sheet1_data) = 2

\* the rows after the title-filling pre-pass, before the matching loop
FilledRows == fill_missing_titles(sheet2_in)

\* what find_match returns for the i-th row as the pre-pass left it
OutcomeOf(i) == find_match(FilledRows[i], sheet1_data, sheet1_normalized)

\* the rows that the matching loop has handled and matched, in input order
MatchedSoFar ==
    SelectSeq([i \in 1..Len(FilledRows) |-> i],
              LAMBDA i : i < next_row /\ OutcomeOf(i).found)

\* C23: the matching loop mutates a row only on a match: a matched row's
\* 'Variant SKU' and 'Variant Barcode' are the identifier and barcode of the
\* master record that find_match returned for it and its other fields are as
\* they were; an unmatched row and a row not yet handled are as they were;
\* the matched-output list holds exactly the matched rows, in input order,
\* and its length is the match count.
C23_LoopMutatesOnlyOnMatch ==
    pc \in {"filled", "mapped", "odoo", "done"} =>
        /\ Len(sheet2_data) = Len(FilledRows)
        /\ \A i \in 1..Len(FilledRows) :
               IF i < next_row /\ OutcomeOf(i).found
               THEN /\ DOMAIN sheet2_data[i] = DOMAIN FilledRows[i]
                    /\ \A k \in DOMAIN FilledRows[i] :
                           sheet2_data[i][k] =
                               CASE k = "Variant SKU" ->
                                        OutcomeOf(i).data.internal_reference
                                 [] k = "Variant Barcode" ->
                                        OutcomeOf(i).data.barcode
                                 [] OTHER -> FilledRows[i][k]
               ELSE sheet2_data[i] = FilledRows[i]
        /\ next_row > 1 =>
               /\ row = FilledRows[next_row - 1]
               /\ match = OutcomeOf(next_row - 1)
        /\ matched_sheet2_rows =
               [k \in 1..Len(MatchedSoFar) |-> sheet2_data[MatchedSoFar[k]]]
        /\ matches_found = Len(MatchedSoFar)
        /\ Len(matched_sheet2_rows) = matches_found

\* a run that matched its second row and not its first
C23_Witness ==
    /\ pc = "done"
    /\ Len(sheet2_data) = 2
    /\ matches_found = 1
    /\ sheet2_data[1]["Variant SKU"] = <<>>
    /\ sheet2_data[1]["Variant Barcode"] = <<"9">>
    /\ sheet2_data[2]["Variant SKU"] = <<"S","1">>
    /\ sheet2_data[2]["Variant Barcode"] = <<"7">>


\* C24: when find_match succeeds through the handle fallback, the master
\* name it returns is the name of the very master record whose identifier
\* and barcode it returns; so a master name is written to the unmapped
\* report only if no storefront row was given that record by find_match.
C24_FallbackNamesItsRecord ==
    /\ (match.found /\ match.cand = 5) =>
           /\ DictHas(sheet1_data, match.name)
           /\ match.data = DictGet(sheet1_data, match.name)
    /\ pc = "done" =>
           \A k \in 1..Len(unmapped_sheet1_rows) :
               \A i \in 1..Len(FilledRows) :
                   OutcomeOf(i).found =>
                       OutcomeOf(i).data
                           # DictGet(sheet1_data, unmapped_sheet1_rows[k].key)


\* C25: in the Shopify update export there is exactly one output row per
\* storefront row, in input order; a row carries a non-empty 'Variant SKU'
\* only if that same row was matched by find_match; an unmatched row has a
\* blank 'Variant SKU' and keeps its own barcode and cost, also when it
\* shares its handle and option values with a matched row.
C25_ShopifyUpdatePerRow ==
    (pc = "done" /\ sheet1_full_data # <<>>) =>
        /\ Len(shopify_update) = Len(FilledRows)
        /\ \A i \in 1..Len(FilledRows) :
               /\ \A field \in shopify_fieldnames
                               \ {"Variant SKU", "Variant Barcode", "Variant Cost"} :
                      shopify_update[i][field] = Get(FilledRows[i], field, <<>>)
               /\ shopify_update[i]["Variant SKU"] # <<>> => OutcomeOf(i).found
               /\ ~OutcomeOf(i).found =>
                      /\ shopify_update[i]["Variant SKU"] = <<>>
                      /\ shopify_update[i]["Variant Barcode"]
                             = Get(FilledRows[i], "Variant Barcode", <<>>)
                      /\ shopify_update[i]["Variant Cost"]
                             = Get(FilledRows[i], "Variant Cost", <<>>)


\* the record that load_sheet1 keeps of a master row
RecordOfRow(r) ==
    [internal_reference |-> Strip(Get(r, "Internal Reference", <<>>)),
     barcode |-> Get(r, "Barcode", <<>>)]

\* the i-th row was matched and matched_lookup holds it under its key
OwnEntry(i) ==
    /\ OutcomeOf(i).found
    /\ DictHas(matched_lookup, variant_key(sheet2_data[i]))
    /\ DictGet(matched_lookup, variant_key(sheet2_data[i])).row = sheet2_data[i]

\* C26: the commercial data attached to a matched row (the Sheet1_Data of
\* the Odoo files and the Sheet1_Cost of the Shopify update) comes from the
\* master record that find_match resolved for that row, also when an
\* identifier is repeated on master rows with different names.
C26_CommercialDataOfResolvedRecord ==
    /\ pc \in {"odoo", "done"} =>
           \A i \in 1..Len(FilledRows) :
               OwnEntry(i) =>
                   LET entry == DictGet(matched_lookup,
                                        variant_key(sheet2_data[i]))
                   IN  \A k \in 1..Len(entry.Sheet1_Data) :
                           RecordOfRow(entry.Sheet1_Data[k]) = OutcomeOf(i).data
    /\ (pc = "done" /\ sheet1_full_data # <<>>) =>
           \A i \in 1..Len(FilledRows) :
               (OwnEntry(i) /\ sheet2_data[i]["Variant SKU"] # <<>>) =>
                   shopify_update[i]["Variant Cost"] \in
                       {Get(sheet1_full_data[k].val, "Cost", <<>>) :
                           k \in {j \in 1..Len(sheet1_full_data) :
                                     RecordOfRow(sheet1_full_data[j].val)
                                         = OutcomeOf(i).data}}


\* the matching loop over the rows of the pre-pass, in input order
InOrder ==
    matching_loop(FilledRows, sheet1_data, sheet1_normalized, Len(FilledRows))

\* C22: per-row resolution does not depend on processing order: once the
\* title-filling pre-pass has run, resolving the rows in any order gives
\* every row the same match outcome, the same 'Variant SKU' and the same
\* 'Variant Barcode' as the loop in input order gives it, and so the same
\* match count and matched master names once every row is resolved.
C22_OrderIndependent ==
    (/\ pc = "filled"
     /\ \A i \in 1..Len(FilledRows) :
            ~find_match_raises(FilledRows[i], sheet1_data)) =>
        /\ \A e \in resolved :
               /\ e.found = InOrder.found[e.index]
               /\ sheet2_data[e.index] = InOrder.sheet2_data[e.index]
        /\ \A i \in (1..Len(FilledRows)) \ {e.index : e \in resolved} :
               sheet2_data[i] = FilledRows[i]
        /\ Cardinality(resolved) = Len(FilledRows) =>
               /\ sheet2_data = InOrder.sheet2_data
               /\ matches_found =
                      Cardinality({i \in 1..Len(FilledRows) : InOrder.found[i]})
               /\ matched_sheet1_names =
                      {OutcomeOf(i).name :
                          i \in {j \in 1..Len(FilledRows) : InOrder.found[j]}}

\* two different rows were both matched, the second before the first
C22_Witness ==
    /\ pc = "filled"
    /\ Cardinality(resolved) = 2
    /\ Len(matched_sheet2_rows) = 2
    /\ matched_sheet2_rows[1] = sheet2_data[2]
    /\ matched_sheet2_rows[1] # sheet2_data[1]
    /\ sheet2_data[1]["Variant SKU"] = <<"S","1">>


\* the handle and the three option values of a row, as the key takes them
VariantOf(r) ==
    <<Strip(Get(r, "Handle", <<>>)), Strip(Get(r, "Option1 Value", <<>>)),
      Strip(Get(r, "Option2 Value", <<>>)), Strip(Get(r, "Option3 Value", <<>>))>>

\* C27: the composite key 'handle|option1|option2|option3' identifies a
\* variant uniquely: two rows get the same key only if they have the same
\* handle and the same three option values, also when a value holds '|'.
\* So the missing-rows report against an empty update file lists one row
\* for each variant of the mapped output, and the duplicates report lists
\* under one key only rows of one variant.
C27_KeyIdentifiesVariant ==
    /\ pc \in {"missing_rows", "extra_rows"} =>
           \A i, j \in 1..Len(first_file) :
               variant_key(first_file[i]) = variant_key(first_file[j]) =>
                   VariantOf(first_file[i]) = VariantOf(first_file[j])
    /\ (pc = "missing_rows" /\ second_file = <<>>) =>
           Len(RowsOf(MissingRowsFile))
               = Cardinality({VariantOf(first_file[i]) : i \in 1..Len(first_file)})
    /\ pc = "extra_rows" =>
           \A a, b \in Listed(RowsOf(DuplicateRowsFile)) :
               a.key = b.key =>
                   VariantOf(second_file[a.row_number - 1])
                       = VariantOf(second_file[b.row_number - 1])

\* C30: the coverage figures of find_missing_skus,
\* find_missing_odoo_variant_skus and find_missing_shopify_rows agree with
\* the missing set: the number counted as covered plus the number missing
\* is the size of the reference set, the covered count never exceeds the
\* reference size, and an empty reference set gives a report, not an error.
C30_CoverageConsistent ==
    /\ pc \in {"missing_skus", "missing_variant_skus", "missing_rows"} =>
           /\ coverage.covered + coverage.missing = coverage.reference
           /\ coverage.covered <= coverage.reference
    /\ message # ZeroDivisionMessage


\* C28: the debug analyzer builds the same keys as the matcher: for every
\* input string debug_mapper.normalize_string returns the key that
\* csv_mapper.normalize_string returns.
C28_DebugKeysAgree ==
    pc # "text" => dnorm1 = norm1


\* the named rows of the master catalog that carry the identifier of row i
SameSku(i) ==
    {j \in Named : Field(master[j], "Internal Reference")
                       = Field(master[i], "Internal Reference")}

\* the entries of the duplicate list for the row at position i + 1
EntriesOf(i) == {e \in 1..Len(duplicate_skus) : duplicate_skus[e].row = i + 1}

\* C29: in the duplicate list built by load_sheet1 each occurrence of a
\* repeated identifier appears exactly once with its own row position: an
\* identifier on n >= 2 named rows has exactly n entries, one per row, and
\* an identifier that occurs once has none.
C29_OneEntryPerOccurrence ==
    pc = "loaded" =>
        /\ \A i \in Named :
               Field(master[i], "Internal Reference") # <<>> =>
                   Cardinality(EntriesOf(i))
                       = IF Cardinality(SameSku(i)) >= 2 THEN 1 ELSE 0
        /\ \A e \in 1..Len(duplicate_skus) :
               \E i \in Named :
                   /\ duplicate_skus[e].row = i + 1
                   /\ duplicate_skus[e].sku = Field(master[i], "Internal Reference")

====
